---- MODULE Spec2Model ----
(***************************************************************************)
(* A model of the plugin/pipeline execution core of aiml-config-portal:    *)
(* the PluginManager and Pipeline of plugin_manager.py and the reference   *)
(* plugins (HTTP input, JSON parser, webhook output, Slack alert).         *)
(*                                                                         *)
(* Python values are tagged records [kind, val]; a mapping (dict) is a     *)
(* function from string keys to values; a call's outcome is a record       *)
(* carrying the exception it raised (NoExc when it returned normally).     *)
(***************************************************************************)
EXTENDS Integers, Sequences, FiniteSets, TLC

(***************************************************************************)
(* Python values                                                           *)
(***************************************************************************)
Str(s) == [kind |-> "str", val |-> s]
Num(n) == [kind |-> "num", val |-> n]
Bool(b) == [kind |-> "bool", val |-> b]
Dict(d) == [kind |-> "dict", val |-> d]
List(q) == [kind |-> "list", val |-> q]
None == [kind |-> "none", val |-> 0]

\* The empty mapping {}.
EmptyDict == [k \in {} |-> None]

\* An exception: its class and str(e). NoExc: no exception was raised.
Exc(type, msg) == [type |-> type, msg |-> msg]
NoExc == Exc("NoExc", "")

\* An except clause that names the errors a plugin reports on purpose, and
\* lets the errors of the interpreter (TypeError, AttributeError) through.
ExceptionClassesDeclared == {"ValueError", "KeyError", "JSONDecodeError"}

\* The classes `except Exception` catches: every exception the modelled code
\* raises derives from Exception.
ExceptionClasses ==
    {"TypeError", "ValueError", "AttributeError", "KeyError", "JSONDecodeError",
     "TimeoutError"}

\* body applied to value, with value computed once.
Let(value, body(_)) == CHOOSE out \in {body(x) : x \in {value}} : TRUE

\* dict.get(key, default)
Get(d, key, default) == IF key \in DOMAIN d THEN d[key] ELSE default

\* Python truthiness of a value: bool(v)
Truthy(v) ==
    CASE v.kind = "str" -> v.val # ""
      [] v.kind = "num" -> v.val # 0
      [] v.kind = "bool" -> v.val
      [] v.kind = "dict" -> DOMAIN v.val # {}
      [] v.kind = "list" -> v.val # <<>>
      [] OTHER -> FALSE

\* str.startswith(prefix)
StartsWith(s, prefix) ==
    Len(s) >= Len(prefix) /\ SubSeq(s, 1, Len(prefix)) = prefix

\* Whether Python orders the value against an int (int, float and bool do).
IsOrdered(v) == v.kind \in {"num", "bool"}

\* The number a value is compared as (True is 1, False is 0).
AsNumber(v) == IF v.kind = "bool" THEN (IF v.val THEN 1 ELSE 0) ELSE v.val

\* d1.update(d2) on mappings: the keys of d2 win.
DictUpdate(d1, d2) ==
    [k \in DOMAIN d1 \cup DOMAIN d2 |-> IF k \in DOMAIN d2 THEN d2[k] ELSE d1[k]]

\* d[key] = value
DictSet(d, key, value) == DictUpdate(d, [k \in {key} |-> value])

\* del d[key]
DictDel(d, key) == [k \in DOMAIN d \ {key} |-> d[k]]

\* len(events) summed over a sequence of batches
RECURSIVE SumLen(_)
SumLen(batches) ==
    IF batches = <<>> THEN 0 ELSE Len(Head(batches)) + SumLen(Tail(batches))

\* The concatenation of a sequence of batches, in order.
RECURSIVE Concat(_)
Concat(batches) ==
    IF batches = <<>> THEN <<>> ELSE Head(batches) \o Concat(Tail(batches))

(***************************************************************************)
(* json.loads, on the texts the model feeds it: the value a text denotes,  *)
(* or a JSONDecodeError.                                                   *)
(***************************************************************************)
JsonObjectA == "{\"a\": 1}"
JsonNested == "{\"user\": {\"name\": \"x\"}}"
JsonNumber == "5"
JsonArray == "[1]"
JsonEmptyArray == "[]"
JsonString == "\"s\""
JsonNull == "null"
JsonTrue == "true"
JsonMalformed == "{oops"
JsonShadow == "{\"message\": \"hi\"}"
JsonDeep == "{\"user\": {\"name\": \"x\", \"tags\": [1]}, \"n\": 1}"
JsonDotted == "{\"a.b\": 1, \"a\": {\"b\": 2}}"
JsonEmptyKey == "{\"\": {\"b\": 1}}"

\* str(e) of the JSONDecodeError json.loads raises on JsonMalformed.
DecodeErrorText ==
    "Expecting property name enclosed in double quotes: line 1 column 2 (char 1)"

json_loads(s) ==
    CASE s = JsonObjectA -> [exc |-> NoExc, ret |-> Dict([a |-> Num(1)])]
      [] s = JsonNested ->
            [exc |-> NoExc, ret |-> Dict([user |-> Dict([name |-> Str("x")])])]
      [] s = JsonShadow -> [exc |-> NoExc, ret |-> Dict([message |-> Str("hi")])]
      [] s = JsonDeep ->
            [exc |-> NoExc,
             ret |-> Dict([user |-> Dict([name |-> Str("x"),
                                          tags |-> List(<<Num(1)>>)]),
                           n |-> Num(1)])]
      [] s = JsonDotted ->
            [exc |-> NoExc,
             ret |-> Dict(("a.b" :> Num(1)) @@ ("a" :> Dict([b |-> Num(2)])))]
      [] s = JsonEmptyKey ->
            [exc |-> NoExc, ret |-> Dict("" :> Dict([b |-> Num(1)]))]
      [] s = JsonNumber -> [exc |-> NoExc, ret |-> Num(5)]
      [] s = JsonArray -> [exc |-> NoExc, ret |-> List(<<Num(1)>>)]
      [] s = JsonEmptyArray -> [exc |-> NoExc, ret |-> List(<<>>)]
      [] s = JsonString -> [exc |-> NoExc, ret |-> Str("s")]
      [] s = JsonNull -> [exc |-> NoExc, ret |-> None]
      [] s = JsonTrue -> [exc |-> NoExc, ret |-> Bool(TRUE)]
      [] OTHER -> [exc |-> Exc("JSONDecodeError", DecodeErrorText), ret |-> None]

(***************************************************************************)
(* HTTP input plugin (http_input.py)                                       *)
(***************************************************************************)
\* A plugin class instantiated and not yet initialized: plugin_class().
NewInstance(cls) == [cls |-> cls]

\* type(v).__name__
PyType(v) ==
    CASE v.kind = "num" -> "int"
      [] v.kind = "none" -> "NoneType"
      [] OTHER -> v.kind

\* What Python raises when a comparison meets operands it does not order.
TypeError(op, left, right) ==
    Exc("TypeError", "'" \o op \o "' not supported between instances of '"
                     \o left \o "' and '" \o right \o "'")

\* What Python raises when a method is looked up on an object without it.
AttributeError(cls, attr) ==
    Exc("AttributeError",
        "'" \o cls \o "' object has no attribute '" \o attr \o "'")

\* What Python raises when a key is missing from a mapping: KeyError(key).
KeyError(key) == Exc("KeyError", "'" \o key \o "'")

DefaultPort == 8080
DefaultBatchSize == 100
MinPort == 1024
MaxPort == 65535
MaxBatchSize == 10000

HTTPInputPlugin_validate_config(config) ==
    LET port == Get(config, "port", Num(DefaultPort))
        path == Get(config, "path", Str(""))
        batch_size == Get(config, "batch_size", Num(DefaultBatchSize))
    IN  CASE ~IsOrdered(port) ->
                [exc |-> TypeError("<=", "int", PyType(port)), ok |-> FALSE,
                 error |-> ""]
          [] ~(MinPort <= AsNumber(port) /\ AsNumber(port) <= MaxPort) ->
                [exc |-> NoExc, ok |-> FALSE,
                 error |-> "Port must be between 1024 and 65535"]
          [] path.kind # "str" ->
                [exc |-> AttributeError(PyType(path), "startswith"),
                 ok |-> FALSE, error |-> ""]
          [] ~StartsWith(path.val, "/") ->
                [exc |-> NoExc, ok |-> FALSE, error |-> "Path must start with /"]
          [] ~IsOrdered(batch_size) ->
                [exc |-> TypeError("<", PyType(batch_size), "int"), ok |-> FALSE,
                 error |-> ""]
          [] AsNumber(batch_size) < 1 \/ AsNumber(batch_size) > MaxBatchSize ->
                [exc |-> NoExc, ok |-> FALSE,
                 error |-> "Batch size must be between 1 and 10000"]
          [] OTHER -> [exc |-> NoExc, ok |-> TRUE, error |-> "None"]

\* The attributes are set before the print whose config['port'] and
\* config['path'] lookups raise KeyError on a mapping without the key.
HTTPInputPlugin_initialize(self, config) ==
    LET set == [cls |-> self.cls, config |-> config, buffer |-> <<>>,
                total_received |-> 0]
    IN  CASE "port" \notin DOMAIN config ->
                [exc |-> KeyError("port"), self |-> set]
          [] "path" \notin DOMAIN config ->
                [exc |-> KeyError("path"), self |-> set]
          [] OTHER -> [exc |-> NoExc, self |-> set]

\* collect() holding the batch back until the buffer exceeds batch_size.
HTTPInputPlugin_collect_Exceeds(self) ==
    LET batch_size == Get(self.config, "batch_size", Num(DefaultBatchSize))
    IN  IF Len(self.buffer) <= AsNumber(batch_size)
        THEN [exc |-> NoExc, ret |-> <<>>, self |-> self]
        ELSE [exc |-> NoExc, ret |-> self.buffer,
              self |-> [self EXCEPT !.buffer = <<>>]]

\* collect() returning the buffered events and leaving them buffered.
HTTPInputPlugin_collect_KeepsBuffer(self) ==
    LET batch_size == Get(self.config, "batch_size", Num(DefaultBatchSize))
    IN  IF Len(self.buffer) < AsNumber(batch_size)
        THEN [exc |-> NoExc, ret |-> <<>>, self |-> self]
        ELSE [exc |-> NoExc, ret |-> self.buffer, self |-> self]

HTTPInputPlugin_collect(self) ==
    LET batch_size == Get(self.config, "batch_size", Num(DefaultBatchSize))
    IN  CASE ~IsOrdered(batch_size) ->
                [exc |-> TypeError("<", "int", PyType(batch_size)), ret |-> <<>>,
                 self |-> self]
          [] Len(self.buffer) < AsNumber(batch_size) ->
                [exc |-> NoExc, ret |-> <<>>, self |-> self]
          [] OTHER ->
                [exc |-> NoExc, ret |-> self.buffer,
                 self |-> [self EXCEPT !.buffer = <<>>]]

\* time.time() at the moment of receipt: the one clock reading of the model.
Now == 0

HTTPInputPlugin_receive_log(self, data) ==
    LET event == [timestamp |-> Num(Now),
                  source |-> Str("http_endpoint"),
                  data |-> data,
                  metadata |-> Dict([port |-> self.config["port"],
                                     path |-> self.config["path"]])]
    IN  [exc |-> NoExc, ret |-> TRUE,
         self |-> [self EXCEPT !.buffer = Append(@, event),
                               !.total_received = @ + 1]]

HTTPInputPlugin_health_check(self) ==
    [status |-> "healthy",
     metrics |-> [total_received |-> self.total_received,
                  buffer_size |-> Len(self.buffer),
                  port |-> self.config["port"]]]

(***************************************************************************)
(* JSON parser plugin (json_parser.py)                                     *)
(***************************************************************************)
JSONParserPlugin_validate_config(config) ==
    LET on_error == Get(config, "on_error", Str("keep"))
    IN  CASE ~Truthy(Get(config, "source_field", None)) ->
                [exc |-> NoExc, ok |-> FALSE, error |-> "Source field is required"]
          [] on_error \notin {Str("keep"), Str("drop"), Str("mark")} ->
                [exc |-> NoExc, ok |-> FALSE,
                 error |-> "on_error must be one of: keep, drop, mark"]
          [] OTHER -> [exc |-> NoExc, ok |-> TRUE, error |-> "None"]

JSONParserPlugin_initialize(self, config) ==
    [exc |-> NoExc,
     self |-> [cls |-> self.cls, config |-> config,
               parse_success |-> 0, parse_errors |-> 0]]

\* d.items() visits the keys in insertion order, for a parsed text the
\* order of the text. A mapping of the model is a function and keeps no
\* order; the order shows only where flattening writes one key twice, and
\* of the texts of json_loads JsonDotted alone does that.
KeysInOrder(d) ==
    IF DOMAIN d = {"a.b", "a"} THEN <<"a.b", "a">>
    ELSE CHOOSE q \in [1..Cardinality(DOMAIN d) -> DOMAIN d] :
            {q[i] : i \in DOMAIN q} = DOMAIN d

\* The (key, value) items of the flattened mapping, in the order the loop
\* appends them. A mapping nested under the key k contributes its own items
\* under the dot-joined key; an empty parent_key is falsy, so keys under it
\* are not prefixed.
RECURSIVE FlattenItems(_, _), FlattenLoop(_, _, _)
FlattenItems(d, parent_key) == FlattenLoop(d, parent_key, KeysInOrder(d))

FlattenLoop(d, parent_key, keys) ==
    IF keys = <<>> THEN <<>>
    ELSE LET k == Head(keys)
             new_key == IF parent_key # "" THEN parent_key \o "." \o k ELSE k
         IN  (IF d[k].kind = "dict" THEN FlattenItems(d[k].val, new_key)
              ELSE << <<new_key, d[k]>> >>)
             \o FlattenLoop(d, parent_key, Tail(keys))

\* dict(items): of two items with one key the later one stays.
JSONParserPlugin_flatten_dict(d) ==
    LET items == FlattenItems(d, "")
        last_of(key) == CHOOSE i \in DOMAIN items :
                            /\ items[i][1] = key
                            /\ \A j \in DOMAIN items : items[j][1] = key => j <= i
    IN  [key \in {items[i][1] : i \in DOMAIN items} |-> items[last_of(key)][2]]

\* _handle_error returning, under "mark", a new event of the two marker keys.
JSONParserPlugin_handle_error_MarkersOnly(self, event, error) ==
    LET on_error == Get(self.config, "on_error", Str("keep"))
    IN  CASE on_error = Str("drop") -> <<>>
          [] on_error = Str("mark") ->
                <<DictSet(DictSet(EmptyDict, "_parse_error", Str(error)),
                          "_parser", Str("json_parser"))>>
          [] OTHER -> <<event>>

JSONParserPlugin_handle_error(self, event, error) ==
    LET on_error == Get(self.config, "on_error", Str("keep"))
    IN  CASE on_error = Str("drop") -> <<>>
          [] on_error = Str("mark") ->
                <<DictSet(DictSet(event, "_parse_error", Str(error)),
                          "_parser", Str("json_parser"))>>
          [] OTHER -> <<event>>

\* event.update(parsed) for a parsed value of any JSON kind: a mapping is
\* merged; an empty array or empty string has no items to add; every other
\* value is refused: TypeError for a non-iterable and for an array whose
\* first element is not a sequence, ValueError for a string, whose first
\* element is one character and not a pair. The arrays json_loads returns
\* here hold no pairs.
EventUpdate(event, parsed) ==
    CASE parsed.kind = "dict" ->
            [exc |-> NoExc, event |-> DictUpdate(event, parsed.val)]
      [] parsed.kind = "list" /\ parsed.val = <<>> ->
            [exc |-> NoExc, event |-> event]
      [] parsed.kind = "str" /\ parsed.val = "" ->
            [exc |-> NoExc, event |-> event]
      [] parsed.kind = "list" ->
            [exc |-> Exc("TypeError",
                         "cannot convert dictionary update sequence element #0 to a sequence"),
             event |-> event]
      [] parsed.kind = "str" ->
            [exc |-> Exc("ValueError",
                         "dictionary update sequence element #0 has length 1; 2 is required"),
             event |-> event]
      [] OTHER ->
            [exc |-> Exc("TypeError", "'" \o PyType(parsed) \o "' object is not iterable"),
             event |-> event]

\* The steps of process() after a value was parsed: flatten, prefix, store,
\* delete the original. parsed.items() is an AttributeError on a value that
\* is not a mapping.
JSONParserPlugin_store(self, event, parsed) ==
    LET source_field == self.config["source_field"].val
        target_field == Get(self.config, "target_field", Str(""))
        flatten == Truthy(Get(self.config, "flatten", Bool(FALSE)))
        prefix == Get(self.config, "prefix", Str(""))
        keep_original == Truthy(Get(self.config, "keep_original", Bool(TRUE)))
        needs_items == flatten \/ Truthy(prefix)
        flat == IF flatten THEN Dict(JSONParserPlugin_flatten_dict(parsed.val))
                ELSE parsed
        prefixed == IF Truthy(prefix)
                    THEN Dict([key \in {prefix.val \o k : k \in DOMAIN flat.val} |->
                                flat.val[CHOOSE k \in DOMAIN flat.val :
                                            prefix.val \o k = key]])
                    ELSE flat
        stored == IF Truthy(target_field)
                  THEN [exc |-> NoExc,
                        event |-> DictSet(event, target_field.val, prefixed)]
                  ELSE EventUpdate(event, prefixed)
        final == IF keep_original THEN stored.event
                 ELSE DictDel(stored.event, source_field)
    IN  CASE needs_items /\ parsed.kind # "dict" ->
                [exc |-> AttributeError(PyType(parsed), "items"),
                 ret |-> <<>>, self |-> self]
          [] stored.exc # NoExc ->
                [exc |-> stored.exc, ret |-> <<>>, self |-> self]
          [] OTHER ->
                [exc |-> NoExc, ret |-> <<final>>,
                 self |-> [self EXCEPT !.parse_success = @ + 1]]

\* process() handing an event without the source field to the error
\* policy, and counting it as a failure.
JSONParserPlugin_process_AbsentIsError(self, event) ==
    LET source_field == self.config["source_field"]
        present == source_field.kind = "str" /\ source_field.val \in DOMAIN event
        source_value == event[source_field.val]
        loaded == json_loads(source_value.val)
    IN  CASE ~present ->
                [exc |-> NoExc,
                 ret |-> JSONParserPlugin_handle_error(self, event, "Not valid JSON"),
                 self |-> [self EXCEPT !.parse_errors = @ + 1]]
          [] source_value.kind = "str" /\ loaded.exc.type = "JSONDecodeError" ->
                [exc |-> NoExc,
                 ret |-> JSONParserPlugin_handle_error(self, event, loaded.exc.msg),
                 self |-> [self EXCEPT !.parse_errors = @ + 1]]
          [] source_value.kind = "str" ->
                JSONParserPlugin_store(self, event, loaded.ret)
          [] source_value.kind = "dict" ->
                JSONParserPlugin_store(self, event, source_value)
          [] OTHER ->
                [exc |-> NoExc,
                 ret |-> JSONParserPlugin_handle_error(self, event, "Not valid JSON"),
                 self |-> self]

\* process(event): ret is <<>> for None (the event is dropped) and
\* <<event>> for a returned event.
JSONParserPlugin_process(self, event) ==
    LET source_field == self.config["source_field"]
        present == source_field.kind = "str" /\ source_field.val \in DOMAIN event
        source_value == event[source_field.val]
        loaded == json_loads(source_value.val)
    IN  CASE ~present -> [exc |-> NoExc, ret |-> <<event>>, self |-> self]
          [] source_value.kind = "str" /\ loaded.exc.type = "JSONDecodeError" ->
                [exc |-> NoExc,
                 ret |-> JSONParserPlugin_handle_error(self, event, loaded.exc.msg),
                 self |-> [self EXCEPT !.parse_errors = @ + 1]]
          [] source_value.kind = "str" ->
                JSONParserPlugin_store(self, event, loaded.ret)
          [] source_value.kind = "dict" ->
                JSONParserPlugin_store(self, event, source_value)
          [] OTHER ->
                [exc |-> NoExc,
                 ret |-> JSONParserPlugin_handle_error(self, event, "Not valid JSON"),
                 self |-> self]

\* process_batch(events): process each event in order, keep what is not
\* None; an exception of process() ends the loop and propagates.
RECURSIVE JSONParserPlugin_process_batch(_, _)
JSONParserPlugin_process_batch(self, events) ==
    IF events = <<>> THEN [exc |-> NoExc, ret |-> <<>>, self |-> self]
    ELSE Let(JSONParserPlugin_process(self, Head(events)), LAMBDA one :
            IF one.exc # NoExc
            THEN [exc |-> one.exc, ret |-> <<>>, self |-> one.self]
            ELSE Let(JSONParserPlugin_process_batch(one.self, Tail(events)),
                     LAMBDA rest :
                        [exc |-> rest.exc,
                         ret |-> IF rest.exc # NoExc THEN <<>>
                                 ELSE one.ret \o rest.ret,
                         self |-> rest.self]))

DegradedBelowPercent == 50
UnhealthyAboveErrors == 1000

\* success_rate = parse_success / total * 100, and 0 when total is 0.
JSONParserPlugin_health_check(self) ==
    LET total == self.parse_success + self.parse_errors
        below == IF total > 0
                 THEN self.parse_success * 100 < DegradedBelowPercent * total
                 ELSE 0 < DegradedBelowPercent
    IN  [status |-> IF self.parse_errors > UnhealthyAboveErrors THEN "unhealthy"
                    ELSE IF below THEN "degraded" ELSE "healthy",
         metrics |-> [parse_success |-> self.parse_success,
                      parse_errors |-> self.parse_errors]]

(***************************************************************************)
(* Webhook output plugin and Slack alert plugin (slack_alert.py)           *)
(***************************************************************************)
WebhookOutputPlugin_validate_config(config) ==
    LET url == Get(config, "url", Str(""))
        batch_size == Get(config, "batch_size", Num(DefaultBatchSize))
    IN  CASE url.kind # "str" ->
                [exc |-> AttributeError(PyType(url), "startswith"),
                 ok |-> FALSE, error |-> ""]
          [] ~(StartsWith(url.val, "http://") \/ StartsWith(url.val, "https://")) ->
                [exc |-> NoExc, ok |-> FALSE,
                 error |-> "URL must start with http:// or https://"]
          [] ~IsOrdered(batch_size) ->
                [exc |-> TypeError("<", PyType(batch_size), "int"), ok |-> FALSE,
                 error |-> ""]
          [] AsNumber(batch_size) < 1 \/ AsNumber(batch_size) > MaxBatchSize ->
                [exc |-> NoExc, ok |-> FALSE,
                 error |-> "Batch size must be between 1 and 10000"]
          [] OTHER -> [exc |-> NoExc, ok |-> TRUE, error |-> "None"]

WebhookOutputPlugin_initialize(self, config) ==
    LET set == [cls |-> self.cls, config |-> config,
                success_count |-> 0, error_count |-> 0]
    IN  IF "url" \notin DOMAIN config
        THEN [exc |-> KeyError("url"), self |-> set]
        ELSE [exc |-> NoExc, self |-> set]

\* A send_batch that counts requests where the code counts events.
WebhookOutputPlugin_send_batch_CountsRequests(self, events, sleep) ==
    IF sleep = NoExc
    THEN [exc |-> NoExc,
          ret |-> [success_count |-> Len(events), failed_count |-> 0,
                   errors |-> <<>>],
          self |-> [self EXCEPT !.success_count = @ + 1]]
    ELSE [exc |-> NoExc,
          ret |-> [success_count |-> 0, failed_count |-> Len(events),
                   errors |-> <<sleep.msg>>],
          self |-> [self EXCEPT !.error_count = @ + 1]]

\* The body of send_batch(events). sleep is what time.sleep(0.01), the
\* simulated request, does: it returns (NoExc), or it raises what a signal
\* handler raised while the thread slept. `except Exception` turns that
\* into a failed batch; what it does not catch propagates.
WebhookOutputPlugin_send_batch_try(self, events, sleep) ==
    IF sleep = NoExc
    THEN [exc |-> NoExc,
          ret |-> [success_count |-> Len(events), failed_count |-> 0,
                   errors |-> <<>>],
          self |-> [self EXCEPT !.success_count = @ + Len(events)]]
    ELSE IF sleep.type \in ExceptionClasses
    THEN [exc |-> NoExc,
          ret |-> [success_count |-> 0, failed_count |-> Len(events),
                   errors |-> <<sleep.msg>>],
          self |-> [self EXCEPT !.error_count = @ + Len(events)]]
    ELSE [exc |-> sleep,
          ret |-> [success_count |-> 0, failed_count |-> 0, errors |-> <<>>],
          self |-> self]

\* send_batch(events) when the simulated request (a sleep) is not
\* interrupted, so the try block returns.
WebhookOutputPlugin_send_batch(self, events) ==
    WebhookOutputPlugin_send_batch_try(self, events, NoExc)

\* send(event): send_batch([event])['success_count'] == 1. inner is what
\* the call of send_batch returned.
WebhookOutputPlugin_send(self, event, sleep) ==
    Let(WebhookOutputPlugin_send_batch_try(self, <<event>>, sleep), LAMBDA r :
        [exc |-> r.exc, ret |-> r.ret.success_count = 1, inner |-> r.ret,
         self |-> r.self])

HealthyAbovePercent == 95

WebhookOutputPlugin_health_check(self) ==
    LET total == self.success_count + self.error_count
        above(pct) == IF total > 0 THEN self.success_count * 100 > pct * total
                      ELSE 100 > pct
    IN  [status |-> IF above(HealthyAbovePercent) THEN "healthy"
                    ELSE IF above(DegradedBelowPercent) THEN "degraded"
                    ELSE "unhealthy",
         metrics |-> [success_count |-> self.success_count,
                      error_count |-> self.error_count]]

SlackAlertPlugin_validate_config(config) ==
    LET webhook_url == Get(config, "webhook_url", Str(""))
    IN  CASE webhook_url.kind # "str" ->
                [exc |-> AttributeError(PyType(webhook_url), "startswith"),
                 ok |-> FALSE, error |-> ""]
          [] ~StartsWith(webhook_url.val, "https://hooks.slack.com/") ->
                [exc |-> NoExc, ok |-> FALSE,
                 error |-> "Invalid Slack webhook URL format"]
          [] OTHER -> [exc |-> NoExc, ok |-> TRUE, error |-> "None"]

SlackAlertPlugin_initialize(self, config) ==
    [exc |-> NoExc,
     self |-> [cls |-> self.cls, config |-> config, alerts_sent |-> 0]]

SlackAlertPlugin_health_check(self) ==
    [status |-> "healthy",
     metrics |-> [alerts_sent |-> self.alerts_sent]]

(***************************************************************************)
(* Method dispatch on an instance: the class of the object decides which   *)
(* code runs, and a method the class does not define is an AttributeError. *)
(***************************************************************************)
validate_config(self, config) ==
    CASE self.cls = "HTTPInputPlugin" -> HTTPInputPlugin_validate_config(config)
      [] self.cls = "JSONParserPlugin" -> JSONParserPlugin_validate_config(config)
      [] self.cls = "WebhookOutputPlugin" -> WebhookOutputPlugin_validate_config(config)
      [] OTHER -> SlackAlertPlugin_validate_config(config)

initialize(self, config) ==
    CASE self.cls = "HTTPInputPlugin" -> HTTPInputPlugin_initialize(self, config)
      [] self.cls = "JSONParserPlugin" -> JSONParserPlugin_initialize(self, config)
      [] self.cls = "WebhookOutputPlugin" -> WebhookOutputPlugin_initialize(self, config)
      [] OTHER -> SlackAlertPlugin_initialize(self, config)

collect(self) ==
    IF self.cls = "HTTPInputPlugin" THEN HTTPInputPlugin_collect(self)
    ELSE [exc |-> AttributeError(self.cls, "collect"), ret |-> <<>>,
          self |-> self]

process_batch(self, events) ==
    IF self.cls = "JSONParserPlugin"
    THEN JSONParserPlugin_process_batch(self, events)
    ELSE [exc |-> AttributeError(self.cls, "process_batch"), ret |-> <<>>,
          self |-> self]

send_batch(self, events) ==
    IF self.cls = "WebhookOutputPlugin"
    THEN WebhookOutputPlugin_send_batch(self, events)
    ELSE [exc |-> AttributeError(self.cls, "send_batch"),
          ret |-> [success_count |-> 0, failed_count |-> 0, errors |-> <<>>],
          self |-> self]

health_check(self) ==
    CASE self.cls = "HTTPInputPlugin" -> HTTPInputPlugin_health_check(self)
      [] self.cls = "JSONParserPlugin" -> JSONParserPlugin_health_check(self)
      [] self.cls = "WebhookOutputPlugin" -> WebhookOutputPlugin_health_check(self)
      [] OTHER -> SlackAlertPlugin_health_check(self)

(***************************************************************************)
(* PluginRegistry (plugin_manager.py).  A dict is modelled with its        *)
(* insertion order: the keys in the order they were first set, and the     *)
(* value of each.                                                          *)
(***************************************************************************)
OrderedEmpty == [keys |-> <<>>, at |-> EmptyDict]

\* d[key] = value on a dict: a key it holds keeps its place.
OrderedSet(d, key, value) ==
    [keys |-> IF key \in DOMAIN d.at THEN d.keys ELSE Append(d.keys, key),
     at |-> DictSet(d.at, key, value)]

\* The classes handed to register(): the four reference plugins, a class
\* whose instantiation raises (InputPlugin, the base the plugins import,
\* taken to be abstract), and one whose metadata property raises.
PluginClasses ==
    {"HTTPInputPlugin", "JSONParserPlugin", "WebhookOutputPlugin",
     "SlackAlertPlugin", "InputPlugin", "FaultyPlugin"}

\* plugin_class(): an abstract class cannot be instantiated.
Instantiate(plugin_class) ==
    IF plugin_class = "InputPlugin"
    THEN [exc |-> Exc("TypeError",
                      "Can't instantiate abstract class InputPlugin"),
          ret |-> NewInstance(plugin_class)]
    ELSE [exc |-> NoExc, ret |-> NewInstance(plugin_class)]

\* PluginMetadata, with category the value of the PluginType member.
PluginMetadata(name, category) ==
    [name |-> name, version |-> "1.0.0", category |-> category,
     pricing |-> "free"]

\* instance.metadata
Metadata(instance) ==
    CASE instance.cls = "HTTPInputPlugin" ->
            [exc |-> NoExc, ret |-> PluginMetadata("HTTP Endpoint", "input")]
      [] instance.cls = "JSONParserPlugin" ->
            [exc |-> NoExc, ret |-> PluginMetadata("JSON Parser", "processing")]
      [] instance.cls = "WebhookOutputPlugin" ->
            [exc |-> NoExc, ret |-> PluginMetadata("Webhook", "output")]
      [] instance.cls = "SlackAlertPlugin" ->
            [exc |-> NoExc,
             ret |-> PluginMetadata("Slack Notifications", "alert")]
      [] OTHER ->
            [exc |-> Exc("ValueError", "no metadata"),
             ret |-> PluginMetadata("", "")]

\* PluginRegistry.__init__
PluginRegistry_init == [plugins |-> OrderedEmpty, plugin_metadata |-> OrderedEmpty]

\* register(plugin_class): the try block stores the class and its metadata
\* under "{category}:{name}"; `except Exception` logs what was raised and
\* returns normally.
PluginRegistry_register(self, plugin_class) ==
    LET made == Instantiate(plugin_class)
        metadata == Metadata(made.ret)
        plugin_id == metadata.ret.category \o ":" \o metadata.ret.name
        except(exc) ==
            IF exc.type \in ExceptionClasses
            THEN [exc |-> NoExc, logged |-> exc.msg, self |-> self]
            ELSE [exc |-> exc, logged |-> "", self |-> self]
    IN  CASE made.exc # NoExc -> except(made.exc)
          [] metadata.exc # NoExc -> except(metadata.exc)
          [] OTHER ->
                [exc |-> NoExc, logged |-> "",
                 self |-> [plugins |->
                              OrderedSet(self.plugins, plugin_id, plugin_class),
                           plugin_metadata |->
                              OrderedSet(self.plugin_metadata, plugin_id,
                                         metadata.ret)]]

\* get_plugin(plugin_id): <<>> for None.
PluginRegistry_get_plugin(self, plugin_id) ==
    IF plugin_id \in DOMAIN self.plugins.at
    THEN <<self.plugins.at[plugin_id]>> ELSE <<>>

\* PluginMetadata.to_dict() with the id added.
PluginInfo(plugin_id, metadata) ==
    [name |-> metadata.name, version |-> metadata.version,
     category |-> metadata.category, pricing |-> metadata.pricing,
     id |-> plugin_id]

\* The categories list_plugins is asked for; "None" is the default argument.
Categories == {"input", "processing", "output", "alert", "analytics"}

\* list_plugins that leaves the category filter out.
PluginRegistry_list_plugins_Unfiltered(self, category) ==
    [i \in DOMAIN self.plugin_metadata.keys |->
        PluginInfo(self.plugin_metadata.keys[i],
                   self.plugin_metadata.at[self.plugin_metadata.keys[i]])]

\* list_plugins(category): the entries of plugin_metadata, in the order of
\* the dict, that are of the category.
PluginRegistry_list_plugins(self, category) ==
    LET listed(plugin_id) ==
            \/ category = "None"
            \/ self.plugin_metadata.at[plugin_id].category = category
        ids == SelectSeq(self.plugin_metadata.keys, listed)
    IN  [i \in DOMAIN ids |->
            PluginInfo(ids[i], self.plugin_metadata.at[ids[i]])]

\* The registry after the four reference plugins were registered.
RECURSIVE RegisterAll(_, _)
RegisterAll(self, classes) ==
    IF classes = <<>> THEN self
    ELSE RegisterAll(PluginRegistry_register(self, Head(classes)).self,
                     Tail(classes))

ReferenceRegistry ==
    RegisterAll(PluginRegistry_init,
                <<"HTTPInputPlugin", "JSONParserPlugin", "WebhookOutputPlugin",
                  "SlackAlertPlugin">>)

(***************************************************************************)
(* PluginManager (plugin_manager.py)                                       *)
(***************************************************************************)
\* The registry a Manager is constructed with: the reference plugins,
\* registered under "{category}:{name}".
RegisteredPlugins ==
    [id \in {"input:HTTP Endpoint", "processing:JSON Parser", "output:Webhook",
             "alert:Slack Notifications"} |->
        CASE id = "input:HTTP Endpoint" -> "HTTPInputPlugin"
          [] id = "processing:JSON Parser" -> "JSONParserPlugin"
          [] id = "output:Webhook" -> "WebhookOutputPlugin"
          [] OTHER -> "SlackAlertPlugin"]

\* create_instance storing the instance and its configuration before it
\* calls initialize, so that a failing initialize leaves them stored.
create_instance_StoreThenInitialize(registry, insts, configs, plugin_id, instance_id, config) ==
    LET instance == NewInstance(registry[plugin_id])
        valid == validate_config(instance, config)
        init == initialize(instance, config)
        failed(error, exc) ==
            [ok |-> FALSE, error |-> error, raised |-> exc, instances |-> insts,
             configurations |-> configs, initialized |-> FALSE]
        stored(r) ==
            [r EXCEPT !.instances = DictSet(insts, instance_id, init.self),
                      !.configurations = DictSet(configs, instance_id, config)]
    IN  CASE plugin_id \notin DOMAIN registry ->
                failed("Plugin " \o plugin_id \o " not found", NoExc)
          [] valid.exc # NoExc -> failed(valid.exc.msg, NoExc)
          [] ~valid.ok -> failed(valid.error, NoExc)
          [] init.exc # NoExc -> stored(failed(init.exc.msg, NoExc))
          [] OTHER ->
                [ok |-> TRUE, error |-> "None", raised |-> NoExc,
                 instances |-> DictSet(insts, instance_id, init.self),
                 configurations |-> DictSet(configs, instance_id, config),
                 initialized |-> TRUE]

\* create_instance keeping the configuration already stored under the id
\* (setdefault), where the code assigns the new one.
create_instance_KeepConfiguration(registry, insts, configs, plugin_id, instance_id, config) ==
    LET instance == NewInstance(registry[plugin_id])
        valid == validate_config(instance, config)
        init == initialize(instance, config)
        failed(error, exc) ==
            [ok |-> FALSE, error |-> error, raised |-> exc, instances |-> insts,
             configurations |-> configs, initialized |-> FALSE]
    IN  CASE plugin_id \notin DOMAIN registry ->
                failed("Plugin " \o plugin_id \o " not found", NoExc)
          [] valid.exc # NoExc -> failed(valid.exc.msg, NoExc)
          [] ~valid.ok -> failed(valid.error, NoExc)
          [] init.exc # NoExc -> failed(init.exc.msg, NoExc)
          [] OTHER ->
                [ok |-> TRUE, error |-> "None", raised |-> NoExc,
                 instances |-> DictSet(insts, instance_id, init.self),
                 configurations |->
                    IF instance_id \in DOMAIN configs THEN configs
                    ELSE DictSet(configs, instance_id, config),
                 initialized |-> TRUE]

\* create_instance: the returned pair (ok, error), the exception the call
\* let through, and the tables after the call. initialized tells whether
\* initialize() ran to completion on the instance the call stored.
create_instance(registry, insts, configs, plugin_id, instance_id, config) ==
    LET instance == NewInstance(registry[plugin_id])
        valid == validate_config(instance, config)
        init == initialize(instance, config)
        failed(error, exc) ==
            [ok |-> FALSE, error |-> error, raised |-> exc, instances |-> insts,
             configurations |-> configs, initialized |-> FALSE]
        except(exc) ==
            IF exc.type \in ExceptionClasses THEN failed(exc.msg, NoExc)
            ELSE failed("", exc)
    IN  CASE plugin_id \notin DOMAIN registry ->
                failed("Plugin " \o plugin_id \o " not found", NoExc)
          [] valid.exc # NoExc -> except(valid.exc)
          [] ~valid.ok -> failed(valid.error, NoExc)
          [] init.exc # NoExc -> except(init.exc)
          [] OTHER ->
                [ok |-> TRUE, error |-> "None", raised |-> NoExc,
                 instances |-> DictSet(insts, instance_id, init.self),
                 configurations |-> DictSet(configs, instance_id, config),
                 initialized |-> TRUE]

\* get_instance: <<>> for None, <<instance>> otherwise.
get_instance(insts, instance_id) ==
    IF instance_id \in DOMAIN insts THEN <<insts[instance_id]>> ELSE <<>>

\* remove_instance answering True for an id the Manager does not hold.
remove_instance_AlwaysTrue(insts, configs, instance_id) ==
    IF instance_id \in DOMAIN insts
    THEN [exc |-> NoExc, ret |-> TRUE,
          instances |-> DictDel(insts, instance_id),
          configurations |-> DictDel(configs, instance_id)]
    ELSE [exc |-> NoExc, ret |-> TRUE, instances |-> insts,
          configurations |-> configs]

\* remove_instance deleting the stored configuration only.
remove_instance_ConfigurationOnly(insts, configs, instance_id) ==
    IF instance_id \in DOMAIN insts
    THEN [exc |-> NoExc, ret |-> TRUE, instances |-> insts,
          configurations |-> DictDel(configs, instance_id)]
    ELSE [exc |-> NoExc, ret |-> FALSE, instances |-> insts,
          configurations |-> configs]

\* remove_instance deleting the stored instance only.
remove_instance_InstanceOnly(insts, configs, instance_id) ==
    IF instance_id \in DOMAIN insts
    THEN [exc |-> NoExc, ret |-> TRUE,
          instances |-> DictDel(insts, instance_id),
          configurations |-> configs]
    ELSE [exc |-> NoExc, ret |-> FALSE, instances |-> insts,
          configurations |-> configs]

\* remove_instance: del of a key a table lacks raises KeyError.
remove_instance(insts, configs, instance_id) ==
    CASE instance_id \notin DOMAIN insts ->
            [exc |-> NoExc, ret |-> FALSE, instances |-> insts,
             configurations |-> configs]
      [] instance_id \notin DOMAIN configs ->
            [exc |-> KeyError(instance_id), ret |-> FALSE,
             instances |-> DictDel(insts, instance_id),
             configurations |-> configs]
      [] OTHER ->
            [exc |-> NoExc, ret |-> TRUE,
             instances |-> DictDel(insts, instance_id),
             configurations |-> DictDel(configs, instance_id)]

\* PluginManager.health_check: <<>> for None, <<health>> otherwise.
Manager_health_check(insts, instance_id) ==
    LET instance == get_instance(insts, instance_id)
    IN  IF instance # <<>> THEN <<health_check(instance[1])>> ELSE <<>>

(***************************************************************************)
(* Pipeline.execute (plugin_manager.py)                                    *)
(*                                                                         *)
(* The pass threads a record through the three loops: exc is the exception *)
(* that ended the try block (NoExc while it runs), instances the Manager's *)
(* instances as the calls leave them, events the working set, calls the    *)
(* plugin calls made so far.                                               *)
(***************************************************************************)
Call(op, id, arg, ret, success_count, exc) ==
    [op |-> op, id |-> id, arg |-> arg, ret |-> ret,
     success_count |-> success_count, exc |-> exc]

RECURSIVE CollectLoop(_, _)
CollectLoop(input_instances, state) ==
    Let(state, LAMBDA st :
        IF input_instances = <<>> \/ st.exc # NoExc THEN st
        ELSE LET input_id == Head(input_instances)
                 input_plugin == get_instance(st.instances, input_id)
             IN  IF input_plugin = <<>> THEN CollectLoop(Tail(input_instances), st)
                 ELSE Let(collect(input_plugin[1]), LAMBDA r :
                        CollectLoop(Tail(input_instances),
                          [st EXCEPT
                             !.exc = r.exc,
                             !.instances[input_id] = r.self,
                             !.events = IF r.exc = NoExc THEN @ \o r.ret ELSE @,
                             !.events_collected =
                                  IF r.exc = NoExc THEN @ + Len(r.ret) ELSE @,
                             !.calls = Append(@, Call("collect", input_id, <<>>,
                                                      r.ret, 0, r.exc))])))

RECURSIVE ProcessLoop(_, _)
ProcessLoop(processing_instances, state) ==
    Let(state, LAMBDA st :
        IF processing_instances = <<>> \/ st.exc # NoExc THEN st
        ELSE LET processor_id == Head(processing_instances)
                 processor == get_instance(st.instances, processor_id)
             IN  IF processor = <<>>
                 THEN ProcessLoop(Tail(processing_instances), st)
                 ELSE Let(process_batch(processor[1], st.events), LAMBDA r :
                        ProcessLoop(Tail(processing_instances),
                          [st EXCEPT
                             !.exc = r.exc,
                             !.instances[processor_id] = r.self,
                             !.events = IF r.exc = NoExc THEN r.ret ELSE @,
                             !.calls = Append(@, Call("process_batch", processor_id,
                                                      st.events, r.ret, 0, r.exc))])))

\* The count overwritten by each output, where the code adds to it.
AddSentLast(events_sent, result) == Get(result, "success_count", 0)

\* stats['events_sent'] += result.get('success_count', 0)
AddSent(events_sent, result) == events_sent + Get(result, "success_count", 0)

\* The output loop without its "if output_plugin:" test: send_batch looked
\* up on the None that get_instance returns for a missing id.
RECURSIVE SendLoopUnchecked(_, _)
SendLoopUnchecked(output_instances, state) ==
    Let(state, LAMBDA st :
        IF output_instances = <<>> \/ st.exc # NoExc THEN st
        ELSE LET output_id == Head(output_instances)
                 output_plugin == get_instance(st.instances, output_id)
             IN  IF output_plugin = <<>>
                 THEN [st EXCEPT !.exc = AttributeError("NoneType", "send_batch")]
                 ELSE Let(send_batch(output_plugin[1], st.events), LAMBDA r :
                        SendLoopUnchecked(Tail(output_instances),
                          [st EXCEPT
                             !.exc = r.exc,
                             !.instances[output_id] = r.self,
                             !.events_sent =
                                  IF r.exc = NoExc THEN AddSent(@, r.ret) ELSE @,
                             !.errors = IF r.exc = NoExc THEN @ \o r.ret.errors
                                        ELSE @,
                             !.calls = Append(@, Call("send_batch", output_id,
                                                      st.events, <<>>,
                                                      r.ret.success_count, r.exc))])))

RECURSIVE SendLoop(_, _)
SendLoop(output_instances, state) ==
    Let(state, LAMBDA st :
        IF output_instances = <<>> \/ st.exc # NoExc THEN st
        ELSE LET output_id == Head(output_instances)
                 output_plugin == get_instance(st.instances, output_id)
             IN  IF output_plugin = <<>> THEN SendLoop(Tail(output_instances), st)
                 ELSE Let(send_batch(output_plugin[1], st.events), LAMBDA r :
                        SendLoop(Tail(output_instances),
                          [st EXCEPT
                             !.exc = r.exc,
                             !.instances[output_id] = r.self,
                             !.events_sent =
                                  IF r.exc = NoExc THEN AddSent(@, r.ret) ELSE @,
                             !.errors = IF r.exc = NoExc THEN @ \o r.ret.errors
                                        ELSE @,
                             !.calls = Append(@, Call("send_batch", output_id,
                                                      st.events, <<>>,
                                                      r.ret.success_count, r.exc))])))

\* The try block of execute(): the three loops, and events_processed set
\* between the second and the third.
TryBlock(pipeline, start) ==
    Let(ProcessLoop(pipeline.processing_instances,
                    CollectLoop(pipeline.input_instances, start)),
        LAMBDA processed :
            SendLoop(pipeline.output_instances,
                     IF processed.exc = NoExc
                     THEN [processed EXCEPT
                             !.events_processed = Len(processed.events)]
                     ELSE processed))

\* A pass that never takes the early return.
DisabledNever(pipeline) == FALSE

\* if not self.enabled: return stats
Disabled(pipeline) == ~pipeline.enabled

\* execute(): the returned statistics, the exception the call let through
\* (the except clause catches the classes deriving from Exception), the
\* instances after the pass and the plugin calls the pass made.
execute(pipeline, insts) ==
    LET start == [exc |-> NoExc, instances |-> insts, events |-> <<>>,
                  events_collected |-> 0, events_processed |-> 0,
                  events_sent |-> 0, errors |-> <<>>, calls |-> <<>>]
    IN  Let(IF Disabled(pipeline) THEN start ELSE TryBlock(pipeline, start),
            LAMBDA done :
                LET caught == done.exc.type \in ExceptionClasses
                IN  [stats |-> [events_collected |-> done.events_collected,
                                events_processed |-> done.events_processed,
                                events_sent |-> done.events_sent,
                                errors |-> IF caught
                                           THEN Append(done.errors, done.exc.msg)
                                           ELSE done.errors],
                     raised |-> IF caught THEN NoExc ELSE done.exc,
                     instances |-> done.instances,
                     calls |-> done.calls])

(***************************************************************************)
(* The state: one PluginManager, one Pipeline over it, and the receiver    *)
(* that delivers request bodies to the HTTP input instances.               *)
(***************************************************************************)
VARIABLES
    instances,       \* PluginManager.instances: instance id -> live instance
    configurations,  \* PluginManager.configurations: instance id -> config
    pipeline,        \* the Pipeline: name, enabled and the three id lists
    initialized,     \* ids whose stored instance completed initialize() and
                     \* has not been removed since
    last,            \* the last call made and what it returned
    registry,        \* the PluginRegistry: plugins and plugin_metadata
    heap,            \* Pipeline objects, exported dicts and their lists, by
                     \* address, and the names bound to them
    collector,       \* the thread inside collect(): where it is, its locals
    log              \* what was handed over so far, in order (ghost)

vars == <<instances, configurations, pipeline, initialized, last, registry,
          heap, collector, log>>

\* The state of what a specification leaves out: the reference registry, no
\* object on the heap, no thread inside collect(), nothing logged.
others == <<registry, heap, collector, log>>
AtRest ==
    /\ registry = ReferenceRegistry
    /\ heap = [cells |-> <<>>, names |-> EmptyDict]
    /\ collector = [pc |-> "idle"]
    /\ log = <<>>

\* Bounds of the model: how many bodies an HTTP input receives in its
\* life, and how high a pass may drive an instance's counters.
MaxReceived == 2
MaxCount == 2

\* Request bodies the receiver delivers: a mapping, a text that is not JSON,
\* and a text holding the JSON number 5.
Bodies == {Dict([level |-> Str("info")]), Str(JsonMalformed), Str(JsonNumber)}

\* Configurations the caller passes to create_instance.
HttpConfig(batch_size) ==
    [port |-> Num(DefaultPort), path |-> Str("/logs"), batch_size |-> Num(batch_size)]
HttpConfigLowPort == [port |-> Num(80), path |-> Str("/logs")]
HttpConfigTextPort == [port |-> Str("8080"), path |-> Str("/logs")]
HttpConfigNoPort == [path |-> Str("/logs")]
ParserConfig(source_field, on_error) ==
    [source_field |-> Str(source_field), on_error |-> Str(on_error)]
ParserConfigBadPolicy == [source_field |-> Str("data"), on_error |-> Str("skip")]
WebhookConfig == [url |-> Str("https://example.com/hook")]
WebhookConfigBadUrl == [url |-> Str("ftp://example.com/hook")]
SlackConfig == [webhook_url |-> Str("https://hooks.slack.com/services/T0")]

\* Pipeline.__init__
Pipeline_init(name) ==
    [name |-> name, enabled |-> TRUE, input_instances |-> <<>>,
     processing_instances |-> <<>>, output_instances |-> <<>>]

\* Pipeline.from_dict: enabled and the lists default when the record lacks
\* them.
Pipeline_from_dict(data) ==
    [name |-> data["name"],
     enabled |-> Get(data, "enabled", TRUE),
     input_instances |-> Get(data, "inputs", <<>>),
     processing_instances |-> Get(data, "processors", <<>>),
     output_instances |-> Get(data, "outputs", <<>>)]

\* The instance ids a pipeline lists.
Range(q) == {q[i] : i \in DOMAIN q}
ListedIds(p) ==
    Range(p.input_instances) \cup Range(p.processing_instances)
        \cup Range(p.output_instances)

\* The calls of one pass of the pipeline specification: the pipelines it
\* imports, and the create_instance calls made for the ids they list.
\* "in1" and "in2" are HTTP inputs, "parse1" and "parse2" JSON parsers
\* ("parse2" reads the level key that "parse1" merges into the event),
\* "out1" and "out2" webhook outputs.
StageLists ==
    {[inputs |-> <<"in1">>, processors |-> <<"parse1">>, outputs |-> <<"out1">>],
     [inputs |-> <<"in1", "in2">>, processors |-> <<>>, outputs |-> <<"out1">>],
     [inputs |-> <<"in1">>, processors |-> <<"parse1", "parse2">>,
      outputs |-> <<>>],
     [inputs |-> <<"in1">>, processors |-> <<>>, outputs |-> <<"out1", "out2">>],
     [inputs |-> <<"out1", "in1">>, processors |-> <<>>, outputs |-> <<"out1">>],
     [inputs |-> <<"in1">>, processors |-> <<"in1", "parse1">>,
      outputs |-> <<"out1">>],
     [inputs |-> <<"in1">>, processors |-> <<>>, outputs |-> <<"parse1", "out1">>]}

PipelineRecords ==
    {[name |-> "main"]}
    \cup {[name |-> "main", enabled |-> e, inputs |-> l.inputs,
           processors |-> l.processors, outputs |-> l.outputs] :
            e \in BOOLEAN, l \in StageLists}

PipelineCreates ==
    {<<"input:HTTP Endpoint", "in1", HttpConfig(2)>>,
     <<"input:HTTP Endpoint", "in1", HttpConfigNoPort>>,
     <<"input:HTTP Endpoint", "in2", HttpConfig(2)>>,
     <<"processing:JSON Parser", "parse1", ParserConfig("data", "drop")>>,
     <<"processing:JSON Parser", "parse2", ParserConfig("level", "mark")>>,
     <<"output:Webhook", "out1", WebhookConfig>>,
     <<"output:Webhook", "out2", WebhookConfig>>}

\* The calls of the manager specification: every kind of configuration,
\* under two instance ids.
ManagerIds == {"a", "b"}
ManagerCreates ==
    {<<"input:HTTP Endpoint", HttpConfig(1)>>,
     <<"input:HTTP Endpoint", HttpConfig(2)>>,
     <<"input:HTTP Endpoint", HttpConfigLowPort>>,
     <<"input:HTTP Endpoint", HttpConfigTextPort>>,
     <<"input:HTTP Endpoint", HttpConfigNoPort>>,
     <<"processing:JSON Parser", ParserConfig("data", "drop")>>,
     <<"processing:JSON Parser", ParserConfigBadPolicy>>,
     <<"output:Webhook", WebhookConfig>>,
     <<"output:Webhook", WebhookConfigBadUrl>>,
     <<"alert:Slack Notifications", SlackConfig>>,
     <<"output:Kafka", WebhookConfig>>}

\* The largest counter an instance holds.
Counter(inst) ==
    CASE inst.cls = "HTTPInputPlugin" -> inst.total_received
      [] inst.cls = "JSONParserPlugin" -> inst.parse_success + inst.parse_errors
      [] inst.cls = "WebhookOutputPlugin" -> inst.success_count + inst.error_count
      [] OTHER -> inst.alerts_sent

Create(plugin_id, instance_id, config) ==
    LET r == create_instance(RegisteredPlugins, instances, configurations,
                             plugin_id, instance_id, config)
        replaced == /\ instance_id \in DOMAIN r.instances
                    /\ \/ instance_id \notin DOMAIN instances
                       \/ r.instances[instance_id] # instances[instance_id]
    IN  /\ instances' = r.instances
        /\ configurations' = r.configurations
        /\ initialized' = IF r.initialized THEN initialized \cup {instance_id}
                          ELSE IF replaced THEN initialized \ {instance_id}
                          ELSE initialized
        /\ last' = [op |-> "create_instance", instance_id |-> instance_id,
                    existed |-> instance_id \in DOMAIN instances,
                    ok |-> r.ok, error |-> r.error, raised |-> r.raised]
        /\ UNCHANGED pipeline
        /\ UNCHANGED others

Remove(instance_id) ==
    LET r == remove_instance(instances, configurations, instance_id)
    IN  /\ instances' = r.instances
        /\ configurations' = r.configurations
        /\ initialized' = IF instance_id \in DOMAIN instances
                          THEN initialized \ {instance_id} ELSE initialized
        /\ last' = [op |-> "remove_instance", instance_id |-> instance_id,
                    ret |-> r.ret, raised |-> r.exc]
        /\ UNCHANGED pipeline
        /\ UNCHANGED others

HealthCheck(instance_id) ==
    /\ last' = [op |-> "health_check", instance_id |-> instance_id,
                ret |-> Manager_health_check(instances, instance_id)]
    /\ UNCHANGED <<instances, configurations, pipeline, initialized>>
    /\ UNCHANGED others

\* The receiver hands a request body to an HTTP input instance.
ReceiveLog(instance_id, data) ==
    /\ instance_id \in DOMAIN instances
    /\ instances[instance_id].cls = "HTTPInputPlugin"
    /\ instances[instance_id].total_received < MaxReceived
    /\ LET r == HTTPInputPlugin_receive_log(instances[instance_id], data)
       IN  /\ instances' = [instances EXCEPT ![instance_id] = r.self]
           /\ last' = [op |-> "receive_log", instance_id |-> instance_id,
                       ret |-> r.ret]
    /\ UNCHANGED <<configurations, pipeline, initialized>>
    /\ UNCHANGED others

Execute ==
    /\ \E r \in {execute(pipeline, instances)} :
            /\ \A id \in DOMAIN r.instances : Counter(r.instances[id]) <= MaxCount
            /\ instances' = r.instances
            /\ last' = [op |-> "execute", stats |-> r.stats, raised |-> r.raised,
                        calls |-> r.calls]
    /\ UNCHANGED <<configurations, pipeline, initialized>>
    /\ UNCHANGED others

(***************************************************************************)
(* Spec: a pipeline imported from a record, the instances it lists created *)
(* and removed, bodies received, passes executed.                          *)
(***************************************************************************)
Init ==
    /\ instances = EmptyDict
    /\ configurations = EmptyDict
    /\ pipeline \in {Pipeline_from_dict(data) : data \in PipelineRecords}
    /\ initialized = {}
    /\ last = [op |-> "init"]
    /\ AtRest

Next ==
    \/ \E c \in PipelineCreates :
            c[2] \in ListedIds(pipeline) /\ Create(c[1], c[2], c[3])
    \/ \E id \in ListedIds(pipeline) : Remove(id)
    \/ \E id \in ListedIds(pipeline) : HealthCheck(id)
    \/ \E id \in ListedIds(pipeline), data \in Bodies : ReceiveLog(id, data)
    \/ Execute

Spec == Init /\ [][Next]_vars

(***************************************************************************)
(* SpecManager: the Manager alone, called with every kind of configuration.*)
(***************************************************************************)
InitManager ==
    /\ instances = EmptyDict
    /\ configurations = EmptyDict
    /\ pipeline = Pipeline_init("main")
    /\ initialized = {}
    /\ last = [op |-> "init"]
    /\ AtRest

NextManager ==
    \/ \E c \in ManagerCreates, id \in ManagerIds : Create(c[1], id, c[2])
    \/ \E id \in ManagerIds : Remove(id)
    \/ \E id \in ManagerIds : HealthCheck(id)
    \/ \E id \in ManagerIds : ReceiveLog(id, Str(JsonMalformed))

SpecManager == InitManager /\ [][NextManager]_vars

(***************************************************************************)
(* Properties of Pipeline.execute                                          *)
(*                                                                         *)
(* last holds the pass just made: the statistics it returned, the          *)
(* exception it let through and the plugin calls it made, in order.        *)
(***************************************************************************)
Passed == last.op = "execute"

\* The calls the last pass made of one operation, in the order made.
CallsOf(op) == SelectSeq(last.calls, LAMBDA c : c.op = op)
Ids(calls) == [i \in DOMAIN calls |-> calls[i].id]
Returned(calls) == [i \in DOMAIN calls |-> calls[i].ret]

\* Some call of the last pass raised.
SomeCallRaised == \E i \in DOMAIN last.calls : last.calls[i].exc # NoExc

\* The ids of a list that resolve to an instance, in list order.  A pass
\* neither creates nor removes instances, so the ids that resolve after
\* the pass are those that resolved during it.
Resolvable(ids) == SelectSeq(ids, LAMBDA id : id \in DOMAIN instances)

\* Every listed instance is of the plugin type of the stage that lists it.
RolesMatch ==
    /\ \A id \in Range(Resolvable(pipeline.input_instances)) :
            instances[id].cls = "HTTPInputPlugin"
    /\ \A id \in Range(Resolvable(pipeline.processing_instances)) :
            instances[id].cls = "JSONParserPlugin"
    /\ \A id \in Range(Resolvable(pipeline.output_instances)) :
            instances[id].cls = "WebhookOutputPlugin"

ZeroStats ==
    [events_collected |-> 0, events_processed |-> 0, events_sent |-> 0,
     errors |-> <<>>]

\* C1: execute() lets no exception through: whatever a collect,
\* process_batch or send_batch call raised, the pass returns its statistics
\* and the text of the exception is in their errors list.
C1_ExecuteNeverPropagates ==
    Passed =>
        /\ last.raised = NoExc
        /\ DOMAIN last.stats =
              {"events_collected", "events_processed", "events_sent", "errors"}
        /\ \A i \in DOMAIN last.calls :
                last.calls[i].exc # NoExc =>
                    last.calls[i].exc.msg \in Range(last.stats.errors)

\* A pass in which a parser's process_batch raised a TypeError.
C1_Witness ==
    /\ Passed
    /\ \E i \in DOMAIN last.calls :
            /\ last.calls[i].op = "process_batch"
            /\ last.calls[i].exc.type = "TypeError"
            /\ instances[last.calls[i].id].cls = "JSONParserPlugin"

\* C2: a call of one instance that raises does not abort the pass: every
\* resolvable instance the pipeline lists is still invoked in that pass,
\* inputs, processors and outputs, each of the plugin type of its stage.
C2_FailureNeverAbortsPass ==
    (Passed /\ pipeline.enabled /\ RolesMatch) =>
        /\ Ids(CallsOf("collect")) = Resolvable(pipeline.input_instances)
        /\ Ids(CallsOf("process_batch")) =
              Resolvable(pipeline.processing_instances)
        /\ Ids(CallsOf("send_batch")) = Resolvable(pipeline.output_instances)

\* The pipeline with the ids that do not resolve taken off its lists.
WithoutMissing(p, insts) ==
    [p EXCEPT
        !.input_instances = SelectSeq(@, LAMBDA id : id \in DOMAIN insts),
        !.processing_instances = SelectSeq(@, LAMBDA id : id \in DOMAIN insts),
        !.output_instances = SelectSeq(@, LAMBDA id : id \in DOMAIN insts)]

\* C3: a listed id that the Manager does not hold is skipped: the pass
\* raises nothing, makes no call on it, and returns the statistics, and
\* leaves the instances, that the pass of the pipeline without that id
\* returns and leaves.
C3_MissingIdSkipped ==
    [][Execute =>
          \E r \in {execute(WithoutMissing(pipeline, instances), instances)} :
              /\ last'.raised = NoExc
              /\ last'.stats = r.stats
              /\ last'.calls = r.calls
              /\ instances' = r.instances
              /\ \A i \in DOMAIN last'.calls :
                    last'.calls[i].id \in DOMAIN instances]_vars

\* A pass over a pipeline listing an id that does not resolve, in which the
\* instances that do resolve collected and sent events, with no error.
C3_Witness ==
    /\ Passed /\ pipeline.enabled
    /\ \E id \in ListedIds(pipeline) : id \notin DOMAIN instances
    /\ last.stats.events_collected > 0
    /\ last.stats.events_sent > 0
    /\ last.stats.errors = <<>>

\* C4: a pass of a disabled pipeline returns zero counts and no errors,
\* calls no plugin operation and leaves every instance as it was.
C4_DisabledPipelineIsNoOp ==
    [][(Execute /\ ~pipeline.enabled) =>
          /\ last'.stats = ZeroStats
          /\ last'.raised = NoExc
          /\ last'.calls = <<>>
          /\ instances' = instances
          /\ configurations' = configurations]_vars

\* A pass of a disabled pipeline whose input holds a full batch and whose
\* output is present: the enabled pipeline would have collected and sent.
C4_Witness ==
    /\ Passed /\ ~pipeline.enabled
    /\ \E id \in Range(Resolvable(pipeline.input_instances)) :
            /\ instances[id].cls = "HTTPInputPlugin"
            /\ Len(instances[id].buffer) >= 2
    /\ Range(Resolvable(pipeline.output_instances)) # {}

\* The working set a stage of the last pass was handed: the argument of
\* its calls.
HandedTo(op) == {CallsOf(op)[i].arg : i \in DOMAIN CallsOf(op)}

\* C5: each resolvable input's collect() is called once, in the order of
\* the input list; the working set handed on is the batches returned, in
\* that order, and events_collected counts the events of those batches.
C5_InputsCollectedInOrder ==
    (Passed /\ pipeline.enabled) =>
        LET batches == Returned(CallsOf("collect"))
        IN  /\ Ids(CallsOf("collect")) = Resolvable(pipeline.input_instances)
            /\ last.stats.events_collected = SumLen(batches)
            /\ IF CallsOf("process_batch") # <<>>
               THEN CallsOf("process_batch")[1].arg = Concat(batches)
               ELSE HandedTo("send_batch") \subseteq {Concat(batches)}

\* C6: processors run in list order, each of them a parser: the first is
\* handed the collected working set, each later one the list the one before
\* it returned, and events_processed is the length of the list the last one
\* returned, or of the collected set when no processor resolves.
C6_ProcessorsCompose ==
    (Passed /\ pipeline.enabled /\ RolesMatch) =>
        LET collected == Concat(Returned(CallsOf("collect")))
            processors == CallsOf("process_batch")
        IN  /\ Ids(processors) = Resolvable(pipeline.processing_instances)
            /\ \A i \in DOMAIN processors :
                    processors[i].arg =
                        IF i = 1 THEN collected ELSE processors[i - 1].ret
            /\ last.stats.events_processed =
                    IF processors = <<>> THEN Len(collected)
                    ELSE Len(processors[Len(processors)].ret)

\* The working set after the processors of the last pass.
FinalSet ==
    IF CallsOf("process_batch") = <<>>
    THEN Concat(Returned(CallsOf("collect")))
    ELSE CallsOf("process_batch")[Len(CallsOf("process_batch"))].ret

RECURSIVE SumSuccess(_)
SumSuccess(calls) ==
    IF calls = <<>> THEN 0
    ELSE Head(calls).success_count + SumSuccess(Tail(calls))

\* C7: after a pass in which no call raised, events_processed is at most
\* events_collected, every resolvable output was handed the final working
\* set, events_sent is the sum of the success counts the outputs returned,
\* and with one output, which sent every event, events_sent equals
\* events_processed.
C7_StageCounts ==
    (Passed /\ pipeline.enabled /\ ~SomeCallRaised) =>
        LET sends == CallsOf("send_batch")
        IN  /\ last.stats.events_processed <= last.stats.events_collected
            /\ last.stats.events_processed = Len(FinalSet)
            /\ Ids(sends) = Resolvable(pipeline.output_instances)
            /\ \A i \in DOMAIN sends : sends[i].arg = FinalSet
            /\ last.stats.events_sent = SumSuccess(sends)
            /\ (Len(sends) = 1 /\ sends[1].success_count = Len(sends[1].arg)) =>
                    last.stats.events_sent = last.stats.events_processed

\* A pass of input, parser and output in which the parser dropped one of
\* two collected events and the output sent the other.
C7_Witness ==
    /\ Passed /\ ~SomeCallRaised
    /\ Len(CallsOf("process_batch")) = 1
    /\ Len(CallsOf("send_batch")) = 1
    /\ last.stats.events_collected = 2
    /\ last.stats.events_processed = 1
    /\ last.stats.events_sent = 1

(***************************************************************************)
(* Properties of the PluginManager                                         *)
(***************************************************************************)
\* The create_instance calls of the manager specification that the code
\* has to refuse: an unregistered type, a configuration validate_config
\* rejects, one on which validate_config raises and one on which
\* initialize raises.
RefusedCreates ==
    {c \in ManagerCreates :
        \/ c[1] \notin DOMAIN RegisteredPlugins
        \/ c[2] \in {HttpConfigLowPort, HttpConfigTextPort, HttpConfigNoPort,
                     ParserConfigBadPolicy, WebhookConfigBadUrl}}

\* C8: create_instance raises nothing; an unregistered type, a rejected
\* configuration or an exception of validate_config or initialize comes back
\* as (false, message), and the instances and configurations are then
\* exactly those before the call.
C8_CreateFailureIsAValue ==
    [][\A c \in ManagerCreates, id \in ManagerIds :
          Create(c[1], id, c[2]) =>
              /\ last'.raised = NoExc
              /\ c \in RefusedCreates => ~last'.ok
              /\ ~last'.ok =>
                    /\ last'.error # "None"
                    /\ instances' = instances
                    /\ configurations' = configurations]_vars

\* A create_instance that failed in initialize, under an id that held an
\* instance, which it still holds.
C8_Witness ==
    /\ last.op = "create_instance"
    /\ ~last.ok
    /\ last.error = "'port'"
    /\ last.existed
    /\ get_instance(instances, last.instance_id) # <<>>

\* An instance as initialize leaves it: of the class registered under the
\* type id, holding the configuration, its counters zero, its buffer empty.
NewlyInitialized(inst, plugin_id, config) ==
    /\ inst.cls = RegisteredPlugins[plugin_id]
    /\ inst.config = config
    /\ Counter(inst) = 0
    /\ inst.cls = "HTTPInputPlugin" => inst.buffer = <<>>

\* C9: a create_instance that succeeds returns (true, None); the id then
\* resolves to the newly initialized instance and its stored configuration
\* is the one passed, whatever the id held before, and what the other ids
\* hold is unchanged.
C9_CreateSuccessStores ==
    [][\A c \in ManagerCreates, id \in ManagerIds :
          (Create(c[1], id, c[2]) /\ last'.ok) =>
              /\ last'.error = "None"
              /\ get_instance(instances', id) # <<>>
              /\ NewlyInitialized(get_instance(instances', id)[1], c[1], c[2])
              /\ id \in DOMAIN configurations'
              /\ configurations'[id] = c[2]
              /\ \A other \in ManagerIds \ {id} :
                    /\ get_instance(instances', other) =
                          get_instance(instances, other)
                    /\ get_instance(configurations', other) =
                          get_instance(configurations, other)]_vars

\* A create_instance that succeeded under an id that held an instance,
\* while the other id holds an input that has received a body.
C9_Witness ==
    /\ last.op = "create_instance"
    /\ last.ok
    /\ last.existed
    /\ \E other \in DOMAIN instances \ {last.instance_id} :
            Counter(instances[other]) > 0

\* C10: every instance a pass calls collect, process_batch or send_batch
\* on, and every instance the Manager calls health_check on, completed
\* initialize and has not been removed since.
C10_CallsOnInitializedOnly ==
    /\ Passed => \A i \in DOMAIN last.calls : last.calls[i].id \in initialized
    /\ (last.op = "health_check" /\ last.ret # <<>>) =>
            last.instance_id \in initialized

\* A pass that made calls while a listed id was not initialized, or
\* a health check that found no instance under the id.
C10_Witness ==
    /\ \E id \in ListedIds(pipeline) : id \notin initialized
    /\ initialized # {}
    /\ \/ Passed /\ last.calls # <<>>
       \/ last.op = "health_check" /\ last.ret # <<>>

\* C11: remove_instance(id) returns true exactly when the Manager holds id;
\* after it, get_instance(id) and health_check(id) return None without
\* raising and a second remove_instance(id) returns false, and the id stays
\* absent until a create_instance under it succeeds.
C11_RemoveInstance ==
    [][/\ \A id \in ManagerIds :
            (last'.op = "remove_instance" /\ Remove(id)) =>
                /\ last'.raised = NoExc
                /\ last'.ret = (id \in DOMAIN instances)
                /\ get_instance(instances', id) = <<>>
                /\ Manager_health_check(instances', id) = <<>>
                /\ remove_instance(instances', configurations', id).exc = NoExc
                /\ remove_instance(instances', configurations', id).ret = FALSE
       /\ \A id \in ManagerIds :
            (last'.op = "health_check" /\ HealthCheck(id)
                /\ id \notin DOMAIN instances) => last'.ret = <<>>
       /\ \A id \in ManagerIds :
            (id \notin DOMAIN instances /\ id \in DOMAIN instances') =>
                /\ last'.op = "create_instance"
                /\ last'.instance_id = id
                /\ last'.ok]_vars

\* A remove_instance that returned true, after which the id does not
\* resolve while the other id still does.
C11_Witness ==
    /\ last.op = "remove_instance"
    /\ last.ret = TRUE
    /\ get_instance(instances, last.instance_id) = <<>>
    /\ DOMAIN instances # {}

(***************************************************************************)
(* SpecInitialize: the reference plugins configured directly, the way       *)
(* create_instance does it: validate_config on a fresh object, and          *)
(* initialize when the configuration was accepted.  instances holds, under  *)
(* the name of its class, the object initialize was last called on.         *)
(***************************************************************************)
\* Configurations with optional keys left out, next to those of the manager
\* specification.
HttpConfigNoBatchSize == [port |-> Num(DefaultPort), path |-> Str("/logs")]
HttpConfigNoPath == [port |-> Num(DefaultPort)]
ParserConfigSourceOnly == [source_field |-> Str("message")]
WebhookConfigBatch == [url |-> Str("http://example.com/hook"), batch_size |-> Num(10)]
SlackConfigChannel ==
    [webhook_url |-> Str("https://hooks.slack.com/services/T0"),
     channel |-> Str("#alerts")]

PluginConfigs ==
    ({"HTTPInputPlugin"} \X
        {HttpConfig(1), HttpConfig(2), HttpConfigNoBatchSize, HttpConfigNoPort,
         HttpConfigNoPath, HttpConfigLowPort, HttpConfigTextPort, EmptyDict})
    \cup ({"JSONParserPlugin"} \X
        {ParserConfig("data", "drop"), ParserConfig("message", "mark"),
         ParserConfigSourceOnly, ParserConfigBadPolicy, EmptyDict})
    \cup ({"WebhookOutputPlugin"} \X
        {WebhookConfig, WebhookConfigBatch, WebhookConfigBadUrl, EmptyDict})
    \cup ({"SlackAlertPlugin"} \X {SlackConfig, SlackConfigChannel, EmptyDict})

\* validate_config(config) on a fresh object of the class.
Validate(cls, config) ==
    /\ \E r \in {validate_config(NewInstance(cls), config)} :
            last' = [op |-> "validate_config", cls |-> cls, config |-> config,
                     ok |-> r.ok, error |-> r.error, raised |-> r.exc]
    /\ UNCHANGED <<instances, configurations, pipeline, initialized>>
    /\ UNCHANGED others

\* initialize(config), called when validate_config returned (True, None).
Initialize(cls, config) ==
    /\ \E v \in {validate_config(NewInstance(cls), config)} :
            v.exc = NoExc /\ v.ok /\ v.error = "None"
    /\ \E r \in {initialize(NewInstance(cls), config)} :
            /\ instances' = DictSet(instances, cls, r.self)
            /\ last' = [op |-> "initialize", cls |-> cls, config |-> config,
                        raised |-> r.exc]
    /\ UNCHANGED <<configurations, pipeline, initialized>>
    /\ UNCHANGED others

NextInitialize ==
    \/ \E c \in PluginConfigs : Validate(c[1], c[2])
    \/ \E c \in PluginConfigs : Initialize(c[1], c[2])

SpecInitialize == InitManager /\ [][NextInitialize]_vars

\* C12: for each reference plugin, initialize(config) raises nothing on
\* every configuration its validate_config accepted, also on one that
\* leaves out optional or defaulted keys.
C12_ValidConfigInitializes ==
    last.op = "initialize" => last.raised = NoExc

(***************************************************************************)
(* SpecHttp: one HTTP input, initialized with a batch size of 1 or 2 or     *)
(* with the default one, receiving bodies and being collected from.         *)
(***************************************************************************)
Collect(instance_id) ==
    /\ instance_id \in DOMAIN instances
    /\ \E r \in {collect(instances[instance_id])} :
            /\ instances' = [instances EXCEPT ![instance_id] = r.self]
            /\ last' = [op |-> "collect", instance_id |-> instance_id,
                        ret |-> r.ret, raised |-> r.exc]
    /\ UNCHANGED <<configurations, pipeline, initialized>>
    /\ UNCHANGED others

\* How many bodies the input of this specification receives in its life.
MaxHttpReceived == 4

\* The receiver hands a request body to the input.
Receive(instance_id, data) ==
    /\ instance_id \in DOMAIN instances
    /\ instances[instance_id].total_received < MaxHttpReceived
    /\ \E r \in {HTTPInputPlugin_receive_log(instances[instance_id], data)} :
            /\ instances' = [instances EXCEPT ![instance_id] = r.self]
            /\ last' = [op |-> "receive_log", instance_id |-> instance_id,
                        ret |-> r.ret]
    /\ UNCHANGED <<configurations, pipeline, initialized>>
    /\ UNCHANGED others

InitHttp ==
    /\ \E config \in {HttpConfig(1), HttpConfig(2), HttpConfigNoBatchSize} :
            /\ instances =
                  DictSet(EmptyDict, "in1",
                          initialize(NewInstance("HTTPInputPlugin"), config).self)
            /\ configurations = DictSet(EmptyDict, "in1", config)
    /\ pipeline = Pipeline_init("main")
    /\ initialized = {"in1"}
    /\ last = [op |-> "init"]
    /\ AtRest

NextHttp ==
    \/ \E data \in Bodies : Receive("in1", data)
    \/ Collect("in1")

SpecHttp == InitHttp /\ [][NextHttp]_vars

\* C13: collect() returns an empty list and leaves the buffer as it was
\* exactly when fewer events are buffered than the configured batch_size
\* (100 when the configuration names none); otherwise it returns every
\* buffered event, in order, and leaves the buffer empty.
C13_CollectDrainsAtBatchSize ==
    [][(last'.op = "collect" /\ Collect("in1")) =>
          LET self == instances["in1"]
              batch_size == Get(self.config, "batch_size", Num(DefaultBatchSize)).val
              held == last'.ret = <<>> /\ instances'["in1"].buffer = self.buffer
          IN  /\ last'.raised = NoExc
              /\ held <=> Len(self.buffer) < batch_size
              /\ ~held => /\ last'.ret = self.buffer
                          /\ instances'["in1"].buffer = <<>>
              /\ instances'["in1"].total_received = self.total_received]_vars

\* A collect() that returned the two buffered events of an input with
\* batch size 2 and left its buffer empty.
C13_Witness ==
    /\ last.op = "collect"
    /\ Len(last.ret) = 2
    /\ instances["in1"].config["batch_size"] = Num(2)
    /\ instances["in1"].buffer = <<>>

(***************************************************************************)
(* SpecParser: one JSON parser, initialized with any combination of its     *)
(* options, handed single events (process) and lists (process_batch) and    *)
(* asked for its health.                                                    *)
(***************************************************************************)
\* The parser's configurations: the key "message" as source field and every
\* combination of the other options, and one that names the source only.
ParserOptions(target_field, flatten, prefix, keep_original, on_error) ==
    [source_field |-> Str("message"), target_field |-> Str(target_field),
     flatten |-> Bool(flatten), prefix |-> Str(prefix),
     keep_original |-> Bool(keep_original), on_error |-> Str(on_error)]

ParserConfigs ==
    {ParserOptions(t, f, p, k, e) :
        t \in {"", "parsed"}, f \in BOOLEAN, p \in {"", "json_"},
        k \in BOOLEAN, e \in {"keep", "drop", "mark"}}
    \cup {ParserConfigSourceOnly}

\* An event whose message field holds the value, next to a field host.
EventWith(message) == [message |-> message, host |-> Str("h1")]

\* The events handed to process(): the message a text of a JSON object, of
\* malformed JSON or of a JSON number, a mapping, an integer, or missing.
ParserEvents ==
    {EventWith(Str(text)) :
        text \in {JsonObjectA, JsonNested, JsonDeep, JsonShadow, JsonDotted,
                  JsonEmptyKey, JsonMalformed, JsonNumber}}
    \cup {EventWith(Dict([a |-> Num(1)])), EventWith(Num(7)),
          [host |-> Str("h1")]}

\* The events process_batch() is handed lists of, and the longest list.
BatchEvents ==
    {EventWith(Str(JsonObjectA)), EventWith(Str(JsonMalformed)),
     EventWith(Str(JsonNumber)), [host |-> Str("h1")]}
MaxBatch == 2
Batches == UNION {[1..n -> BatchEvents] : n \in 0..MaxBatch}

Process(instance_id, event) ==
    /\ instance_id \in DOMAIN instances
    /\ \E r \in {JSONParserPlugin_process(instances[instance_id], event)} :
            /\ Counter(r.self) <= MaxCount
            /\ instances' = [instances EXCEPT ![instance_id] = r.self]
            /\ last' = [op |-> "process", instance_id |-> instance_id,
                        event |-> event, ret |-> r.ret, raised |-> r.exc]
    /\ UNCHANGED <<configurations, pipeline, initialized>>
    /\ UNCHANGED others

ProcessBatch(instance_id, events) ==
    /\ instance_id \in DOMAIN instances
    /\ \E r \in {process_batch(instances[instance_id], events)} :
            /\ Counter(r.self) <= MaxCount
            /\ instances' = [instances EXCEPT ![instance_id] = r.self]
            /\ last' = [op |-> "process_batch", instance_id |-> instance_id,
                        events |-> events, ret |-> r.ret, raised |-> r.exc]
    /\ UNCHANGED <<configurations, pipeline, initialized>>
    /\ UNCHANGED others

InitParser ==
    /\ \E config \in ParserConfigs :
            /\ instances =
                  DictSet(EmptyDict, "parse1",
                          initialize(NewInstance("JSONParserPlugin"), config).self)
            /\ configurations = DictSet(EmptyDict, "parse1", config)
    /\ pipeline = Pipeline_init("main")
    /\ initialized = {"parse1"}
    /\ last = [op |-> "init"]
    /\ AtRest

NextParser ==
    \/ \E event \in ParserEvents : Process("parse1", event)
    \/ \E events \in Batches : ProcessBatch("parse1", events)
    \/ HealthCheck("parse1")

SpecParser == InitParser /\ [][NextParser]_vars

(***************************************************************************)
(* Properties of the JSON parser                                           *)
(***************************************************************************)
\* The parser of the specification, and the options it was configured with.
Parser == instances["parse1"]
Option(key, default) == Get(Parser.config, key, default)

\* The last call was process() on an event whose source field holds ...
Processed == last.op = "process"
SourcePresent == Processed /\ "message" \in DOMAIN last.event
SourceMalformed ==
    /\ SourcePresent
    /\ last.event["message"].kind = "str"
    /\ json_loads(last.event["message"].val).exc.type = "JSONDecodeError"
SourceObject ==
    /\ SourcePresent
    /\ last.event["message"].kind = "str"
    /\ json_loads(last.event["message"].val).exc = NoExc
    /\ json_loads(last.event["message"].val).ret.kind = "dict"

MarkerKeys == {"_parse_error", "_parser"}

\* C14: on a source field holding malformed JSON, process(event) returns
\* None under on_error = drop; under mark the event with its fields as they
\* were and, added, an error message key and a parser key; under keep the
\* event, with no key added, changed or removed.
C14_ErrorPolicies ==
    SourceMalformed =>
        /\ last.raised = NoExc
        /\ Option("on_error", Str("keep")) = Str("drop") => last.ret = <<>>
        /\ Option("on_error", Str("keep")) = Str("keep") => last.ret = <<last.event>>
        /\ Option("on_error", Str("keep")) = Str("mark") =>
              /\ Len(last.ret) = 1
              /\ DOMAIN last.ret[1] = DOMAIN last.event \cup MarkerKeys
              /\ \A key \in DOMAIN last.event \ MarkerKeys :
                    last.ret[1][key] = last.event[key]
              /\ last.ret[1]["_parse_error"].kind = "str"
              /\ last.ret[1]["_parse_error"].val # ""
              /\ last.ret[1]["_parser"] = Str("json_parser")

\* A process() of an event with malformed JSON under the policy mark.
C14_Witness ==
    /\ SourceMalformed
    /\ Option("on_error", Str("keep")) = Str("mark")
    /\ last.ret # <<>>
    /\ "host" \in DOMAIN last.event

\* C15: process(event) on an event without the source field returns the
\* event, its keys and values as they were, under every combination of
\* the options, and leaves the success and failure counters as they were.
C15_AbsentSourcePassesThrough ==
    [][(last'.op = "process" /\ "message" \notin DOMAIN last'.event) =>
          /\ last'.raised = NoExc
          /\ last'.ret = <<last'.event>>
          /\ instances'["parse1"].parse_success = Parser.parse_success
          /\ instances'["parse1"].parse_errors = Parser.parse_errors
          /\ instances' = instances]_vars

\* A process() of an event without the source field by a parser that drops
\* on error, flattens, prefixes and deletes the original.
C15_Witness ==
    /\ Processed
    /\ "message" \notin DOMAIN last.event
    /\ Option("on_error", Str("keep")) = Str("drop")
    /\ Option("flatten", Bool(FALSE)) = Bool(TRUE)
    /\ Option("prefix", Str("")) = Str("json_")
    /\ Option("keep_original", Bool(TRUE)) = Bool(FALSE)
    /\ last.ret = <<last.event>>

\* The mapping a successfully parsed object is to be stored as: the parsed
\* mapping, flattened when flatten is set, its keys prefixed when a prefix
\* is set.
Shaped ==
    LET parsed == json_loads(last.event["message"].val).ret.val
        flat == IF Truthy(Option("flatten", Bool(FALSE)))
                THEN JSONParserPlugin_flatten_dict(parsed) ELSE parsed
        prefix == Option("prefix", Str("")).val
    IN  [key \in {prefix \o k : k \in DOMAIN flat} |->
            flat[CHOOSE k \in DOMAIN flat : prefix \o k = key]]

\* C16: after a successful parse of a JSON object the event returned holds
\* the parsed mapping, flattened and prefixed as configured, as its
\* top-level keys when target_field is empty and under target_field
\* otherwise; it holds the source field with its original value when
\* keep_original is true, and no source field when keep_original is false.
C16_ParsedObjectPlaced ==
    SourceObject =>
        /\ last.raised = NoExc
        /\ Len(last.ret) = 1
        /\ LET out == last.ret[1]
               target_field == Option("target_field", Str("")).val
               keep_original == Truthy(Option("keep_original", Bool(TRUE)))
           IN  /\ target_field = "" =>
                      \A key \in DOMAIN Shaped :
                          key \in DOMAIN out /\ out[key] = Shaped[key]
               /\ target_field # "" =>
                      target_field \in DOMAIN out /\ out[target_field] = Dict(Shaped)
               /\ keep_original =>
                      /\ "message" \in DOMAIN out
                      /\ out["message"] = last.event["message"]
               /\ ~keep_original => "message" \notin DOMAIN out

\* The non-mapping leaves of a mapping: the keys leading to each, outermost
\* first, and its value.
RECURSIVE Leaves(_)
Leaves(d) ==
    UNION { IF d[k].kind = "dict"
              THEN {<< <<k>> \o leaf[1], leaf[2] >> : leaf \in Leaves(d[k].val)}
              ELSE {<< <<k>>, d[k] >>} : k \in DOMAIN d }

\* The keys of a path joined by dots.
RECURSIVE DotJoin(_)
DotJoin(path) ==
    IF Len(path) = 1 THEN path[1] ELSE path[1] \o "." \o DotJoin(Tail(path))

\* The last call parsed an object with flatten set, no prefix, and stored
\* the result under the target field "parsed".
FlattenedUnderTarget ==
    /\ SourceObject
    /\ Truthy(Option("flatten", Bool(FALSE)))
    /\ Option("prefix", Str("")) = Str("")
    /\ Option("target_field", Str("")) = Str("parsed")

\* C17: with flatten set, the mapping stored has no mapping-valued entry
\* and has, for every non-mapping leaf of the parsed mapping, the key that
\* joins by dots the keys leading to the leaf, with the leaf's value; an
\* array is such a leaf and is kept whole.
C17_FlattenDotJoinsLeaves ==
    FlattenedUnderTarget =>
        LET parsed == json_loads(last.event["message"].val).ret.val
            flat == last.ret[1]["parsed"].val
        IN  /\ \A key \in DOMAIN flat : flat[key].kind # "dict"
            /\ \A leaf \in Leaves(parsed) :
                    /\ DotJoin(leaf[1]) \in DOMAIN flat
                    /\ flat[DotJoin(leaf[1])] = leaf[2]

\* What process() returns for each event of a list, one by one: a list of
\* one event, or the empty list where the event is dropped.
EachProcessed(events) ==
    [i \in DOMAIN events |-> JSONParserPlugin_process(Parser, events[i])]

\* C18: process_batch(events) calls process on each event once, in list
\* order, and returns exactly the results that are not absent, in the order
\* of their inputs; the length of the result is len(events) minus the
\* number of dropped events.
C18_BatchKeepsSurvivorsInOrder ==
    last.op = "process_batch" =>
        LET each == EachProcessed(last.events)
            dropped == {i \in DOMAIN each : each[i].ret = <<>>}
        IN  /\ last.raised = NoExc
            /\ last.ret = Concat([i \in DOMAIN each |-> each[i].ret])
            /\ Len(last.ret) = Len(last.events) - Cardinality(dropped)

\* The status the lifetime counters call for: the success rate is
\* successes / (successes + failures), and is below 50% when twice the
\* successes are fewer than the attempts.
StatusFor(successes, failures) ==
    IF failures > UnhealthyAboveErrors THEN "unhealthy"
    ELSE IF 2 * successes < successes + failures THEN "degraded"
    ELSE "healthy"

\* C19: in every state of a JSON parser instance, health_check reports
\* unhealthy exactly when the lifetime failure count exceeds 1000, otherwise
\* degraded exactly when the lifetime success rate is below 50%, otherwise
\* healthy.
C19_ParserHealthFollowsCounters ==
    (last.op = "health_check" /\ last.instance_id = "parse1") =>
        last.ret[1].status = StatusFor(Parser.parse_success, Parser.parse_errors)

(***************************************************************************)
(* The webhook output on its own: one initialized instance, out1, that is  *)
(* handed batches and single events.                                       *)
(***************************************************************************)
\* What the sleep of a request does: it returns, or a signal handler that
\* ran meanwhile raised.
SleepOutcomes == {NoExc, Exc("TimeoutError", "timed out")}

\* The events sent, the longest batch, and the most events one instance is
\* handed over its lifetime.
SentEvents == {[message |-> Str("m1")], [message |-> Str("m2")]}
MaxSendBatch == 2
MaxSent == 4
SendBatches == UNION {[1..n -> SentEvents] : n \in 0..MaxSendBatch}

SendBatch(instance_id, events, sleep) ==
    /\ instance_id \in DOMAIN instances
    /\ \E r \in {WebhookOutputPlugin_send_batch_try(instances[instance_id],
                                                    events, sleep)} :
            /\ Counter(r.self) <= MaxSent
            /\ instances' = [instances EXCEPT ![instance_id] = r.self]
            /\ last' = [op |-> "send_batch", instance_id |-> instance_id,
                        events |-> events, sleep |-> sleep, ret |-> r.ret,
                        raised |-> r.exc]
    /\ UNCHANGED <<configurations, pipeline, initialized>>
    /\ UNCHANGED others

Send(instance_id, event, sleep) ==
    /\ instance_id \in DOMAIN instances
    /\ \E r \in {WebhookOutputPlugin_send(instances[instance_id], event, sleep)} :
            /\ Counter(r.self) <= MaxSent
            /\ instances' = [instances EXCEPT ![instance_id] = r.self]
            /\ last' = [op |-> "send", instance_id |-> instance_id,
                        event |-> event, sleep |-> sleep, ret |-> r.ret,
                        inner |-> r.inner, raised |-> r.exc]
    /\ UNCHANGED <<configurations, pipeline, initialized>>
    /\ UNCHANGED others

InitWebhook ==
    /\ \E config \in {WebhookConfig, WebhookConfigBatch} :
            /\ instances =
                  DictSet(EmptyDict, "out1",
                          initialize(NewInstance("WebhookOutputPlugin"), config).self)
            /\ configurations = DictSet(EmptyDict, "out1", config)
    /\ pipeline = Pipeline_init("main")
    /\ initialized = {"out1"}
    /\ last = [op |-> "init"]
    /\ AtRest

NextWebhook ==
    \/ \E events \in SendBatches, sleep \in SleepOutcomes :
            SendBatch("out1", events, sleep)
    \/ \E event \in SentEvents, sleep \in SleepOutcomes :
            Send("out1", event, sleep)
    \/ HealthCheck("out1")

SpecWebhook == InitWebhook /\ [][NextWebhook]_vars

\* The counts a send_batch result reports add up to n, and exactly one of
\* the instance's two counters grew, by n, over the step.
AccountsFor(result, n) ==
    LET before == instances["out1"]
        after == instances'["out1"]
    IN  /\ result.success_count + result.failed_count = n
        /\ \/ /\ after.success_count = before.success_count + n
              /\ after.error_count = before.error_count
           \/ /\ after.error_count = before.error_count + n
              /\ after.success_count = before.success_count
        /\ n > 0 => <<after.success_count, after.error_count>>
                        # <<before.success_count, before.error_count>>

\* C20: every send_batch(events) returns success_count + failed_count =
\* len(events) and increases exactly one of the instance's success and
\* error counters by len(events); send(event) returns true exactly when
\* its call of send_batch([event]) reports success_count = 1.
C20_WebhookAccountsForBatch ==
    [][/\ last'.op = "send_batch" =>
              /\ last'.raised = NoExc
              /\ AccountsFor(last'.ret, Len(last'.events))
       /\ last'.op = "send" =>
              /\ last'.raised = NoExc
              /\ AccountsFor(last'.inner, 1)
              /\ last'.ret = (last'.inner.success_count = 1)]_vars

\* Reached: a batch of two events failed after an earlier one succeeded.
C20_Witness ==
    /\ last.op = "send_batch"
    /\ Len(last.events) = 2
    /\ last.ret.failed_count = 2
    /\ instances["out1"].error_count = 2
    /\ instances["out1"].success_count > 0

(***************************************************************************)
(* More properties of the JSON parser                                      *)
(***************************************************************************)
\* C26: process(event) never raises: whatever the event and the value of
\* its source field, a string of valid JSON that is not an object
\* included, and whatever target_field, flatten and prefix are, it returns
\* an event or None.
C26_ProcessNeverRaises ==
    Processed => /\ last.raised = NoExc
                 /\ Len(last.ret) \in {0, 1}

\* C27: an initialized JSON parser that has attempted no parse, both its
\* counters zero, reports the health status healthy.
C27_FreshParserIsHealthy ==
    (/\ last.op = "health_check"
     /\ last.instance_id = "parse1"
     /\ Parser.parse_success = 0
     /\ Parser.parse_errors = 0) => last.ret[1].status = "healthy"

\* The value of the source field was parsed: it is a mapping, or a string
\* that json.loads accepts.
SourceParses(event) ==
    \/ event["message"].kind = "dict"
    \/ /\ event["message"].kind = "str"
       /\ json_loads(event["message"].val).exc = NoExc

\* C23: every process(event) on an event that has the source field
\* increases exactly one counter by one: parse_success when the value was
\* parsed, parse_errors when it was not (invalid JSON, or a value that is
\* neither a string nor a mapping).
C23_CountersAccountForAttempts ==
    [][(last'.op = "process" /\ "message" \in DOMAIN last'.event) =>
          LET before == instances["parse1"]
              after == instances'["parse1"]
          IN  IF SourceParses(last'.event)
              THEN /\ after.parse_success = before.parse_success + 1
                   /\ after.parse_errors = before.parse_errors
              ELSE /\ after.parse_errors = before.parse_errors + 1
                   /\ after.parse_success = before.parse_success]_vars

(***************************************************************************)
(* More properties of the Manager                                          *)
(***************************************************************************)
\* C28: in every state reached through create_instance and remove_instance,
\* failed calls included, the instance ids with a stored instance are the
\* instance ids with a stored configuration.
C28_InstancesMatchConfigurations ==
    DOMAIN instances = DOMAIN configurations

\* Reached: a create on an id already held was refused, and the tables
\* still hold that id.
C28_Witness ==
    /\ last.op = "create_instance"
    /\ ~last.ok
    /\ last.existed
    /\ last.instance_id \in DOMAIN instances
    /\ last.instance_id \in DOMAIN configurations

(***************************************************************************)
(* SpecRegistry: a PluginRegistry, empty at first, that classes are        *)
(* registered with and that is listed.  log is the classes register()     *)
(* was called with, in the order of the calls.                             *)
(***************************************************************************)
\* How many register() calls are made in the life of the registry.
MaxRegistered == 4

Register(plugin_class) ==
    /\ Len(log) < MaxRegistered
    /\ \E r \in {PluginRegistry_register(registry, plugin_class)} :
            /\ registry' = r.self
            /\ last' = [op |-> "register", plugin_class |-> plugin_class,
                        raised |-> r.exc, logged |-> r.logged]
    /\ log' = Append(log, plugin_class)
    /\ UNCHANGED <<instances, configurations, pipeline, initialized, heap,
                   collector>>

ListPlugins(category) ==
    /\ last' = [op |-> "list_plugins", category |-> category,
                ret |-> PluginRegistry_list_plugins(registry, category)]
    /\ UNCHANGED <<instances, configurations, pipeline, initialized, registry,
                   heap, collector, log>>

InitRegistry ==
    /\ instances = EmptyDict
    /\ configurations = EmptyDict
    /\ pipeline = Pipeline_init("main")
    /\ initialized = {}
    /\ last = [op |-> "new"]
    /\ registry = PluginRegistry_init
    /\ heap = [cells |-> <<>>, names |-> EmptyDict]
    /\ collector = [pc |-> "idle"]
    /\ log = <<>>

NextRegistry ==
    \/ \E plugin_class \in PluginClasses : Register(plugin_class)
    \/ \E category \in Categories \cup {"None"} : ListPlugins(category)

SpecRegistry == InitRegistry /\ [][NextRegistry]_vars

\* What the reference plugins are registered as, known from their sources.
IdOf(plugin_class) ==
    CASE plugin_class = "HTTPInputPlugin" -> "input:HTTP Endpoint"
      [] plugin_class = "JSONParserPlugin" -> "processing:JSON Parser"
      [] plugin_class = "WebhookOutputPlugin" -> "output:Webhook"
      [] plugin_class = "SlackAlertPlugin" -> "alert:Slack Notifications"
      [] OTHER -> ""

\* The ids registered by the calls of a list, each once, in the order they
\* were first registered.
RECURSIVE FirstRegistered(_)
FirstRegistered(calls) ==
    IF calls = <<>> THEN <<>>
    ELSE LET before == FirstRegistered(SubSeq(calls, 1, Len(calls) - 1))
             id == IdOf(calls[Len(calls)])
         IN  IF id = "" \/ \E i \in DOMAIN before : before[i] = id
             THEN before ELSE Append(before, id)

IdsListed(listing) == [i \in DOMAIN listing |-> listing[i].id]

\* C21: list_plugins(category) returns only entries of that category,
\* list_plugins() returns one entry per registered id, and the entries are
\* in the order their ids were first registered; two listings in a row,
\* with no register in between, are equal.
C21_ListingIsStableAndFiltered ==
    [][last'.op = "list_plugins" =>
          LET ret == last'.ret
              first == FirstRegistered(log')
              OfCategory(id) ==
                  \/ last'.category = "None"
                  \/ StartsWith(id, last'.category \o ":")
          IN  /\ last'.category # "None" =>
                    \A i \in DOMAIN ret : ret[i].category = last'.category
              /\ last'.category = "None" => IdsListed(ret) = first
              /\ IdsListed(ret) = SelectSeq(first, OfCategory)
              /\ (last.op = "list_plugins" /\ last.category = last'.category)
                    => ret = last.ret]_vars

\* Reached: a listing by category of a registry that holds three ids, one
\* of them registered twice, returned the one entry of the category.
C21_Witness ==
    /\ last.op = "list_plugins"
    /\ last.category = "processing"
    /\ IdsListed(last.ret) = <<"processing:JSON Parser">>
    /\ Len(registry.plugin_metadata.keys) = 3
    /\ Len(log) = 4
    /\ \A i \in DOMAIN log : IdOf(log[i]) # ""

\* C24: register of a type whose instantiation or metadata retrieval
\* raises fails with a RegistrationError and leaves the registry's types
\* and metadata as they were, and later register calls still succeed; a
\* register that succeeds stores the type and its metadata under
\* "{category}:{name}".
C24_RegisterFailsWithRegistrationError ==
    [][last'.op = "register" =>
          LET id == IdOf(last'.plugin_class)
          IN  IF id = ""
              THEN /\ last'.raised.type = "RegistrationError"
                   /\ registry' = registry
              ELSE /\ last'.raised = NoExc
                   /\ PluginRegistry_get_plugin(registry', id)
                        = <<last'.plugin_class>>
                   /\ registry'.plugin_metadata.at[id].name
                        = SubSeq(id, Len(id) - Len(registry'.plugin_metadata.at[id].name) + 1, Len(id))
                   /\ StartsWith(id, registry'.plugin_metadata.at[id].category \o ":")]_vars

(***************************************************************************)
(* Pipeline objects on the heap (plugin_manager.py).  A list is an object: *)
(* an attribute or a dict entry holds its address, and two holders of one  *)
(* address see each other's appends.  cells[a] is the object at address a. *)
(***************************************************************************)
\* A new object: the cells with it, and its address.
Alloc(cells, object) == [cells |-> Append(cells, object), at |-> Len(cells) + 1]

NewList(cells, items) == Alloc(cells, [type |-> "list", items |-> items])

\* Pipeline.__init__ on the heap: three new empty lists.
Pipeline_new(cells, name) ==
    Let(NewList(cells, <<>>), LAMBDA inputs :
    Let(NewList(inputs.cells, <<>>), LAMBDA processors :
    Let(NewList(processors.cells, <<>>), LAMBDA outputs :
        Alloc(outputs.cells,
              [type |-> "Pipeline", name |-> name, enabled |-> TRUE,
               input_instances |-> inputs.at,
               processing_instances |-> processors.at,
               output_instances |-> outputs.at]))))

\* add_input, add_processor, add_output: append to the list the attribute
\* holds.
Pipeline_add(cells, self, attribute, instance_id) ==
    [cells EXCEPT ![cells[self][attribute]].items = Append(@, instance_id)]

\* to_dict leaving the enabled flag out of the export.
Pipeline_to_dict_WithoutEnabled(cells, self) ==
    Alloc(cells,
          [type |-> "dict",
           entries |-> [name |-> cells[self].name,
                        inputs |-> cells[self].input_instances,
                        processors |-> cells[self].processing_instances,
                        outputs |-> cells[self].output_instances]])

\* to_dict: a new dict whose entries hold what the attributes hold.
Pipeline_to_dict(cells, self) ==
    Alloc(cells,
          [type |-> "dict",
           entries |-> [name |-> cells[self].name,
                        enabled |-> cells[self].enabled,
                        inputs |-> cells[self].input_instances,
                        processors |-> cells[self].processing_instances,
                        outputs |-> cells[self].output_instances]])

\* data.get(key, []): the default, a new list, is made before the call.
GetList(cells, entries, key) ==
    Let(NewList(cells, <<>>), LAMBDA default :
        [cells |-> default.cells, at |-> Get(entries, key, default.at)])

\* from_dict on the heap: a new Pipeline whose attributes are assigned what
\* the entries of data hold, or the defaults.
Pipeline_from_dict_on(cells, data) ==
    LET entries == cells[data].entries
    IN  Let(Pipeline_new(cells, entries["name"]), LAMBDA made :
        Let(GetList(made.cells, entries, "inputs"), LAMBDA inputs :
        Let(GetList(inputs.cells, entries, "processors"), LAMBDA processors :
        Let(GetList(processors.cells, entries, "outputs"), LAMBDA outputs :
            [cells |-> [outputs.cells EXCEPT
                            ![made.at].enabled =
                                Get(entries, "enabled", TRUE),
                            ![made.at].input_instances = inputs.at,
                            ![made.at].processing_instances = processors.at,
                            ![made.at].output_instances = outputs.at],
             at |-> made.at]))))

\* A record read from a file: a new dict with a new list for every list it
\* has.
RECURSIVE LoadRecord(_, _, _)
LoadRecord(cells, record, keys) ==
    IF keys = <<>>
    THEN Alloc(cells, [type |-> "dict", entries |-> record])
    ELSE IF Head(keys) \in DOMAIN record
    THEN Let(NewList(cells, record[Head(keys)]), LAMBDA list :
            LoadRecord(list.cells, [record EXCEPT ![Head(keys)] = list.at],
                       Tail(keys)))
    ELSE LoadRecord(cells, record, Tail(keys))

(***************************************************************************)
(* SpecSerialize: a pipeline p imported from a record, exported and        *)
(* imported again as q, and instance ids added to either.  log is the      *)
(* add calls made.                                                         *)
(***************************************************************************)
SerializedRecords ==
    {[name |-> "main"],
     [name |-> "main", enabled |-> FALSE, inputs |-> <<"in1">>,
      processors |-> <<"parse1">>, outputs |-> <<"out1">>],
     [name |-> "nightly", enabled |-> TRUE, inputs |-> <<"in1", "in2">>,
      processors |-> <<>>, outputs |-> <<"out1">>]}

\* How many ids are added in one behaviour.
MaxAdded == 3
Attributes == {"input_instances", "processing_instances", "output_instances"}

Bound(name) == name \in DOMAIN heap.names

\* target.add_input(id), target.add_processor(id) or target.add_output(id)
Add(target, attribute, instance_id) ==
    /\ Bound(target)
    /\ Len(log) < MaxAdded
    /\ heap' = [heap EXCEPT !.cells = Pipeline_add(heap.cells, heap.names[target],
                                                   attribute, instance_id)]
    /\ log' = Append(log, <<target, attribute, instance_id>>)
    /\ last' = [op |-> "add", target |-> target, attribute |-> attribute,
                instance_id |-> instance_id]
    /\ UNCHANGED <<instances, configurations, pipeline, initialized, registry,
                   collector>>

\* data = p.to_dict(); q = Pipeline.from_dict(data, manager)
RoundTrip ==
    /\ ~Bound("q")
    /\ \E exported \in {Pipeline_to_dict(heap.cells, heap.names["p"])} :
       \E imported \in {Pipeline_from_dict_on(exported.cells, exported.at)} :
            heap' = [cells |-> imported.cells,
                     names |-> DictSet(DictSet(heap.names, "data", exported.at),
                                       "q", imported.at)]
    /\ last' = [op |-> "round_trip"]
    /\ UNCHANGED <<instances, configurations, pipeline, initialized, registry,
                   collector, log>>

\* q = Pipeline.from_dict({'name': name}, manager)
ImportNamed(name) ==
    /\ ~Bound("q")
    /\ \E record \in {LoadRecord(heap.cells, [name |-> name], <<>>)} :
       \E imported \in {Pipeline_from_dict_on(record.cells, record.at)} :
            heap' = [cells |-> imported.cells,
                     names |-> DictSet(heap.names, "q", imported.at)]
    /\ last' = [op |-> "from_dict", name |-> name]
    /\ UNCHANGED <<instances, configurations, pipeline, initialized, registry,
                   collector, log>>

InitSerialize ==
    /\ instances = EmptyDict
    /\ configurations = EmptyDict
    /\ pipeline = Pipeline_init("main")
    /\ initialized = {}
    /\ last = [op |-> "new"]
    /\ registry = ReferenceRegistry
    /\ \E record \in SerializedRecords :
       \E loaded \in {LoadRecord(<<>>, record,
                                 <<"inputs", "processors", "outputs">>)} :
       \E imported \in {Pipeline_from_dict_on(loaded.cells, loaded.at)} :
            heap = [cells |-> imported.cells,
                    names |-> DictSet(EmptyDict, "p", imported.at)]
    /\ collector = [pc |-> "idle"]
    /\ log = <<>>

NextSerialize ==
    \/ \E target \in {"p", "q"}, attribute \in Attributes :
            Add(target, attribute, "in3")
    \/ RoundTrip
    \/ \E name \in {"spare"} : ImportNamed(name)

SpecSerialize == InitSerialize /\ [][NextSerialize]_vars

\* What a pipeline is, read off the heap: its name, its flag and the ids
\* its three lists hold.
View(h, name) ==
    LET self == h.cells[h.names[name]]
    IN  [name |-> self.name, enabled |-> self.enabled,
         inputs |-> h.cells[self.input_instances].items,
         processors |-> h.cells[self.processing_instances].items,
         outputs |-> h.cells[self.output_instances].items]

\* C22: Pipeline.from_dict(p.to_dict(), manager) has the name, the enabled
\* flag and the three instance-id lists of p, same ids in the same order;
\* from_dict on a record with a name only gives enabled = true and three
\* empty lists.
C22_ExportImportRoundTrip ==
    [][/\ last'.op = "round_trip" =>
              /\ View(heap', "q") = View(heap, "p")
              /\ View(heap', "p") = View(heap, "p")
       /\ last'.op = "from_dict" =>
              View(heap', "q") = [name |-> last'.name, enabled |-> TRUE,
                                  inputs |-> <<>>, processors |-> <<>>,
                                  outputs |-> <<>>]]_vars

\* Reached: a disabled pipeline that lists four ids was exported and
\* imported.
C22_Witness ==
    /\ last.op = "round_trip"
    /\ Bound("q")
    /\ ~View(heap, "q").enabled
    /\ View(heap, "q").inputs = <<"in1", "in3">>
    /\ View(heap, "q").outputs = <<"out1">>

\* C29: a pipeline q obtained as Pipeline.from_dict(p.to_dict(), manager)
\* is independent of p: add_input, add_processor or add_output on q leaves
\* the three instance-id lists of p as they were, and the other way round.
C29_ImportedPipelineIsIndependent ==
    [][(last'.op = "add" /\ Bound("q")) =>
          LET other == IF last'.target = "q" THEN "p" ELSE "q"
          IN  View(heap', other) = View(heap, other)]_vars

(***************************************************************************)
(* SpecHttpSequential: one HTTP input whose receive_log and collect are    *)
(* called one after the other.  Every request carries its number as body,  *)
(* so that no two events are equal; log is the events receive_log took     *)
(* and the lists collect returned, in order.                               *)
(***************************************************************************)
\* How many requests arrive in one behaviour.
MaxAccepted == 4

\* receive_log(data), called by the receiver with the body of a request.
Accept(instance_id) ==
    /\ Len(log.received) < MaxAccepted
    /\ \E r \in {HTTPInputPlugin_receive_log(instances[instance_id],
                                            Num(Len(log.received) + 1))} :
            /\ instances' = [instances EXCEPT ![instance_id] = r.self]
            /\ log' = [log EXCEPT !.received =
                          IF r.ret THEN Append(@, r.self.buffer[Len(r.self.buffer)])
                          ELSE @]
            /\ last' = [op |-> "receive_log", instance_id |-> instance_id,
                        ret |-> r.ret]
    /\ UNCHANGED <<configurations, pipeline, initialized, registry, heap,
                   collector>>

\* collect(), from start to return.
CollectAll(instance_id) ==
    /\ \E r \in {HTTPInputPlugin_collect(instances[instance_id])} :
            /\ instances' = [instances EXCEPT ![instance_id] = r.self]
            /\ log' = [log EXCEPT !.returned = Append(@, r.ret)]
            /\ last' = [op |-> "collect", instance_id |-> instance_id,
                        ret |-> r.ret, raised |-> r.exc]
    /\ Len(log'.returned) <= MaxAccepted
    /\ UNCHANGED <<configurations, pipeline, initialized, registry, heap,
                   collector>>

InitHttpLogged ==
    /\ \E config \in {HttpConfig(1), HttpConfig(2)} :
            /\ instances =
                  DictSet(EmptyDict, "in1",
                          initialize(NewInstance("HTTPInputPlugin"), config).self)
            /\ configurations = DictSet(EmptyDict, "in1", config)
    /\ pipeline = Pipeline_init("main")
    /\ initialized = {"in1"}
    /\ last = [op |-> "new"]
    /\ registry = ReferenceRegistry
    /\ heap = [cells |-> <<>>, names |-> EmptyDict]
    /\ collector = [pc |-> "idle"]
    /\ log = [received |-> <<>>, returned |-> <<>>]

NextHttpSequential ==
    \/ Accept("in1")
    \/ CollectAll("in1")

SpecHttpSequential == InitHttpLogged /\ [][NextHttpSequential]_vars

\* C25: in every state reached by receive_log and collect calls after
\* initialize, total_received is the number of events collect returned so
\* far plus the length of the buffer; every received event is returned by
\* at most one collect, and events are returned in the order received.
C25_HttpInputConserves ==
    /\ instances["in1"].total_received
          = SumLen(log.returned) + Len(instances["in1"].buffer)
    /\ Concat(log.returned) \o instances["in1"].buffer = log.received
    /\ \A i, j \in DOMAIN log.received :
            log.received[i] = log.received[j] => i = j

\* Reached: two collects returned a batch each, and an event received
\* since is buffered.
C25_Witness ==
    /\ Len(SelectSeq(log.returned, LAMBDA batch : batch # <<>>)) = 2
    /\ Len(instances["in1"].buffer) = 1
    /\ instances["in1"].total_received = 4

(***************************************************************************)
(* SpecHttpThreads: the receiver calls receive_log while a pipeline pass   *)
(* is inside collect() of the same input.  collect() runs a statement at a *)
(* time: the test of the buffer length, the copy of the buffer, and the    *)
(* assignment of a new empty buffer followed by the return.                *)
(***************************************************************************)
\* if len(self.buffer) < self.config.get('batch_size', 100): return []
CollectTest(instance_id) ==
    /\ collector.pc = "idle"
    /\ Len(log.returned) < MaxAccepted
    /\ LET self == instances[instance_id]
           batch_size == Get(self.config, "batch_size", Num(DefaultBatchSize))
       IN  IF Len(self.buffer) < AsNumber(batch_size)
           THEN /\ collector' = collector
                /\ log' = [log EXCEPT !.returned = Append(@, <<>>)]
                /\ last' = [op |-> "collect", instance_id |-> instance_id,
                            ret |-> <<>>, raised |-> NoExc]
           ELSE /\ collector' = [pc |-> "copy"]
                /\ log' = log
                /\ last' = [op |-> "collect_test", instance_id |-> instance_id]
    /\ UNCHANGED <<instances, configurations, pipeline, initialized, registry,
                   heap>>

\* events = self.buffer.copy()
CollectCopy(instance_id) ==
    /\ collector.pc = "copy"
    /\ collector' = [pc |-> "reset", events |-> instances[instance_id].buffer]
    /\ last' = [op |-> "collect_copy", instance_id |-> instance_id]
    /\ UNCHANGED <<instances, configurations, pipeline, initialized, registry,
                   heap, log>>

\* self.buffer = []; return events
CollectReset(instance_id) ==
    /\ collector.pc = "reset"
    /\ instances' = [instances EXCEPT ![instance_id].buffer = <<>>]
    /\ collector' = [pc |-> "idle"]
    /\ log' = [log EXCEPT !.returned = Append(@, collector.events)]
    /\ last' = [op |-> "collect", instance_id |-> instance_id,
                ret |-> collector.events, raised |-> NoExc]
    /\ UNCHANGED <<configurations, pipeline, initialized, registry, heap>>

NextHttpThreads ==
    \/ Accept("in1")
    \/ CollectTest("in1")
    \/ CollectCopy("in1")
    \/ CollectReset("in1")

SpecHttpThreads == InitHttpLogged /\ [][NextHttpThreads]_vars

\* C30: with receive_log running interleaved with collect on the same
\* input, no accepted event is lost or duplicated: whenever no collect is
\* under way, the events receive_log returned true for are those the
\* collects returned, each once, followed by those still buffered.
C30_NoEventLostOrDuplicated ==
    collector.pc = "idle" =>
        Concat(log.returned) \o instances["in1"].buffer = log.received

====
